---- MODULE Spec2Model ----
(***************************************************************************)
(* The chore scheduler of packages/qwik/src/core/shared (createScheduler): *)
(* the sorted chore queue, schedule, drainUpTo, executeChore and the       *)
(* comparator that orders the queue.                                       *)
(*                                                                         *)
(* One step of the model is one stretch of scheduler code between two      *)
(* calls into code the scheduler does not own (an executor, the host).     *)
(* The position in drainUpTo is kept in pc:                                *)
(*   "idle"  no scheduler frame is on the stack (a chore may be suspended) *)
(*   "loop"  drainUpTo is at the top of its while loop                     *)
(*   "exec"  executeChore has called the executor of currentChore          *)
(***************************************************************************)
EXTENDS Integers, Sequences, FiniteSets, TLC

\* ------------------------------------------------------------------------
\* Bounds
\* ------------------------------------------------------------------------
\* number of calls the application makes: schedule calls and removals of a
\* vnode (the host's own drains are not counted)
MaxCalls == 3

\* ------------------------------------------------------------------------
\* ChoreType
\* ------------------------------------------------------------------------
QRL_RESOLVE == 1
RESOURCE == 2
TASK == 3
NODE_DIFF == 4
NODE_PROP == 5
COMPONENT_SSR == 6
COMPONENT == 7
RECOMPUTE_AND_SCHEDULE_EFFECTS == 8
JOURNAL_FLUSH == 16
VISIBLE == 32
CLEANUP_VISIBLE == 48
WAIT_FOR_ALL == 255

\* the mask written as 0b1100_0000
MACRO_narrowMask(type) == (type \div 64) * 64
\* type & ChoreType.MACRO (0b1111_0000)
MACRO(type) == (type \div 16) * 16
\* the mask written as 0b0000_0011
MICRO_narrowMask(type) == type % 4
\* type & ChoreType.MICRO (0b0000_1111)
MICRO(type) == type % 16

\* ------------------------------------------------------------------------
\* Hosts: the Parent / Child components of the scheduler's documentation.
\* The Child is rendered inside the Parent.
\* ------------------------------------------------------------------------
NullHost == 0
ParentHost == 1
ChildHost == 2
Hosts == {ParentHost, ChildHost}

\* Task objects: $el$, $index$, the chore type the task is scheduled as and
\* whether its function is async (returns a promise)
ParentTask == [el |-> ParentHost, index |-> 0, type |-> TASK, async |-> FALSE]
ParentVisibleTask == [el |-> ParentHost, index |-> 1, type |-> VISIBLE, async |-> TRUE]
ChildTask == [el |-> ChildHost, index |-> 0, type |-> TASK, async |-> TRUE]
ChildVisibleTask == [el |-> ChildHost, index |-> 1, type |-> VISIBLE, async |-> FALSE]
ChildResource == [el |-> ChildHost, index |-> 2, type |-> RESOURCE, async |-> TRUE]

\* the identity of a Task object, as the payload of its chores
TaskId(task) == 10 * task.el + task.index

\* Signals: a ComputedSignal is scheduled without a host, a WrappedSignal
\* with the host element it belongs to.
ComputedA == [id |-> 1, host |-> NullHost]
WrappedP == [id |-> 2, host |-> ParentHost]
ComputedB == [id |-> 3, host |-> NullHost]

\* The applications the scheduler is run with.  An application is the
\* container kind and the things its code schedules: its tasks, the visible
\* tasks it cleans up, its signals, QRLs, the property names it writes, the
\* hosts it renders as components and diffs, whether it removes the Child
\* from the tree, the chore types whose executor fails (throws, or rejects
\* the promise it returned), and the chore types whose $promise$, returned
\* by schedule, its code awaits.
NoApp ==
  [container |-> "dom", tasks |-> {}, cleanups |-> {}, signals |-> {},
   qrls |-> {}, props |-> {}, components |-> {}, diffs |-> {},
   removes |-> FALSE, failing |-> {}, awaits |-> {}]

\* the visible tasks and the render of the example of the scheduler's
\* documentation
DocApp ==
  [NoApp EXCEPT !.tasks = {ParentVisibleTask, ChildVisibleTask},
                !.components = {ParentHost}]

\* the tasks of the example, awaited by the code that schedules them
AwaitApp ==
  [NoApp EXCEPT !.tasks = {ParentTask, ChildTask},
                !.awaits = {TASK}]

\* a parent whose diff removes the child
TeardownApp ==
  [NoApp EXCEPT !.tasks = {ChildVisibleTask, ChildResource},
                !.cleanups = {ChildVisibleTask},
                !.diffs = {ParentHost},
                !.removes = TRUE]

\* attribute writes
AttrApp ==
  [NoApp EXCEPT !.tasks = {ParentVisibleTask},
                !.props = {1, 2},
                !.diffs = {ParentHost}]

\* computed and wrapped signals
SignalApp ==
  [NoApp EXCEPT !.tasks = {ChildTask},
                !.signals = {ComputedA, WrappedP, ComputedB}]

\* lazy-loaded code
QrlApp ==
  [NoApp EXCEPT !.tasks = {ParentVisibleTask},
                !.qrls = {1, 2}]

\* server-side rendering
SsrApp ==
  [NoApp EXCEPT !.container = "ssr",
                !.tasks = {ChildTask, ChildResource},
                !.signals = {WrappedP},
                !.components = Hosts]

\* an application whose render functions, diffs and imports fail
ErrorApp ==
  [NoApp EXCEPT !.components = Hosts,
                !.diffs = {ParentHost},
                !.qrls = {1},
                !.failing = {COMPONENT, NODE_DIFF, QRL_RESOLVE}]

Apps ==
  {DocApp, AwaitApp, TeardownApp, AttrApp, SignalApp, QrlApp, SsrApp,
   ErrorApp}

Null == 0

NumIdx(n) == [str |-> FALSE, v |-> n]
StrIdx(p) == [str |-> TRUE, v |-> p]

VARIABLES
  app,                    \* the application the container runs
  chores,                 \* every Chore object created so far, by identity
  choreQueue,             \* the sorted array, as chore identities
  currentChore,           \* identity of the executing chore, Null if none
  journalFlushScheduled,
  pc,                     \* position in drainUpTo / executeChore
  runUptoChore,           \* argument of the drainUpTo frame on the stack
  resumed,                \* the drainUpTo frame on the stack is a continuation
  suspended,              \* executor promises not settled, with the drain
                          \* that waits for each
  microtasks,             \* promise reactions ready to run, in order: the
                          \* awaiters of a chore's $promise$ ("resume") and
                          \* the continuations of drainUpTo ("drain")
  deleted,                \* vnodes that carry VNodeFlags.Deleted
  resolvedQrls,           \* QRLs whose .resolved is set
  journal,                \* the container's journal of pending mutations
  drainRequests,          \* scheduleDrain() calls the host has not served
  calls,                  \* number of schedule calls of the application
  log,                    \* chores in the order executeChore was entered
  flushes,                \* for each journalFlush(): the journal it applied
  dropped,                \* chores dequeued and neither run nor skipped
  skipped,                \* chores dequeued and skipped (deleted host)
  assertFailed,           \* assertEqual(currentChore, null) has failed
  lastSchedule,           \* what the latest schedule call did
  returns,                \* what drainUpTo calls have returned
  failed,                 \* chores whose executor failed, and whether the
                          \* failure was passed to container.handleError
  woken,                  \* chores whose awaiters have been resumed, with
                          \* the number of chores started by then
  compared,               \* three chores and what choreComparator returned
                          \* for them (used to examine the comparator alone)
  qrlObject,              \* the closure of one QRL made by createQRL (used to
                          \* examine resolve alone)
  signalTarget,           \* the signal a RECOMPUTE_AND_SCHEDULE_EFFECTS chore
                          \* is executed for (used to examine that executor)
  serialized,             \* a useSerialized$ signal and its container (used
                          \* to examine custom serialization)
  invocation,             \* a call of the function getFn returns (used by
                          \* SpecInvoke only)
  hookScope,              \* the sequential scope of a component with
                          \* useSerialized$ hooks (used by SpecHook only)
  EMITTED                 \* the symbols emitUsedSymbol has seen, with the
                          \* events dispatched (used by SpecEmit only)

vars ==
  << app, chores, choreQueue, currentChore, journalFlushScheduled, pc,
     runUptoChore, resumed, suspended, microtasks, deleted, resolvedQrls,
     journal, drainRequests, calls, log, flushes, dropped, skipped,
     assertFailed, lastSchedule, returns, failed, woken, compared,
     qrlObject, signalTarget, serialized, invocation, hookScope, EMITTED >>

\* ------------------------------------------------------------------------
\* Helpers of the scheduler
\* ------------------------------------------------------------------------
\* a conversion that gives every string a number of its own
toNumber_parse(value) == value.v

\* typeof value === 'number' ? value : -1
toNumber(value) == IF value.str THEN -1 ELSE value.v

\* isDomContainer(container)
isDomContainer == app.container = "dom"

\* on the client every host is a vnode, on the server none is
vnode_isVNode(host) == isDomContainer

\* document order of two hosts: negative when a comes first
vnode_documentPosition(aHost, bHost) ==
  IF aHost < bHost THEN -1 ELSE IF aHost > bHost THEN 1 ELSE 0

FifoType(type) ==
  type \in {QRL_RESOLVE, NODE_PROP, RECOMPUTE_AND_SCHEDULE_EFFECTS}

choreComparator(a, b) ==
  LET macroTypeDiff == MACRO(a.type) - MACRO(b.type)
      aHost == a.host
      bHost == b.host
      microTypeDiff == MICRO(a.type) - MICRO(b.type)
      idxDiff == toNumber(a.idx) - toNumber(b.idx)
      afterHost ==
        IF microTypeDiff # 0 THEN microTypeDiff
        ELSE IF idxDiff # 0 THEN idxDiff
        ELSE IF a.target # b.target /\ a.type = b.type /\ FifoType(a.type)
          THEN 1
        ELSE 0
  IN IF macroTypeDiff # 0 THEN macroTypeDiff
     ELSE IF a.type = JOURNAL_FLUSH THEN 0
     ELSE IF aHost # bHost /\ aHost # NullHost /\ bHost # NullHost
       THEN IF vnode_isVNode(aHost) /\ vnode_isVNode(bHost)
              THEN LET hostDiff == vnode_documentPosition(aHost, bHost)
                   IN IF hostDiff # 0 THEN hostDiff ELSE afterHost
              ELSE 1
     ELSE afterHost

\* binary search over sortedArray[bottom .. top-1] (0-based, as in the
\* source); a negative result is ~bottom
RECURSIVE sortedFindIndexFrom(_, _, _, _, _)
sortedFindIndexFrom(table, sortedArray, value, bottom, top) ==
  IF bottom < top
    THEN LET middle == bottom + ((top - bottom) \div 2)
             midChore == table[sortedArray[middle + 1]]
             comp == choreComparator(value, midChore)
         IN IF comp < 0
              THEN sortedFindIndexFrom(table, sortedArray, value, bottom, middle)
              ELSE IF comp > 0
                THEN sortedFindIndexFrom(table, sortedArray, value, middle + 1, top)
                ELSE middle
    ELSE (-bottom) - 1

sortedFindIndex(table, sortedArray, value) ==
  sortedFindIndexFrom(table, sortedArray, value, 0, Len(sortedArray))

\* choreComparator(a, b) takes its server branch and calls logWarn
logWarn(a, b) ==
  /\ MACRO(a.type) = MACRO(b.type)
  /\ a.type # JOURNAL_FLUSH
  /\ a.host # b.host /\ a.host # NullHost /\ b.host # NullHost
  /\ ~(vnode_isVNode(a.host) /\ vnode_isVNode(b.host))

\* one of the comparisons of the binary search calls logWarn
RECURSIVE sortedFindWarnsFrom(_, _, _, _, _)
sortedFindWarnsFrom(table, sortedArray, value, bottom, top) ==
  IF bottom < top
    THEN LET middle == bottom + ((top - bottom) \div 2)
             midChore == table[sortedArray[middle + 1]]
             comp == choreComparator(value, midChore)
         IN \/ logWarn(value, midChore)
            \/ IF comp < 0
                 THEN sortedFindWarnsFrom(table, sortedArray, value, bottom, middle)
                 ELSE IF comp > 0
                   THEN sortedFindWarnsFrom(table, sortedArray, value, middle + 1, top)
                   ELSE FALSE
    ELSE FALSE

sortedFindWarns(table, sortedArray, value) ==
  sortedFindWarnsFrom(table, sortedArray, value, 0, Len(sortedArray))

\* sortedArray.splice(at, 0, id), at 0-based
Splice(sortedArray, at, id) ==
  SubSeq(sortedArray, 1, at) \o <<id>> \o SubSeq(sortedArray, at + 1, Len(sortedArray))

choreUpdate(existing, newChore) ==
  IF existing.type = NODE_DIFF
    THEN [existing EXCEPT !.payload = newChore.payload]
    ELSE existing

\* The result of sortedInsert on the chore table and the queue:
\* the new table, the new queue, the identity of the returned chore and
\* whether the value was merged into an existing entry.
sortedInsert(table, sortedArray, value) ==
  LET insertAt(idx, warns) ==
        IF idx < 0
          THEN LET id == Len(table) + 1
               IN [table |-> Append(table, [value EXCEPT !.warned = warns]),
                   queue |-> Splice(sortedArray, (-idx) - 1, id),
                   chore |-> id,
                   merged |-> FALSE]
          ELSE LET existing == sortedArray[idx + 1]
               IN [table |-> [table EXCEPT
                                ![existing] = [choreUpdate(@, value) EXCEPT
                                                 !.warned = @ \/ warns]],
                   queue |-> sortedArray,
                   chore |-> existing,
                   merged |-> TRUE]
  IN insertAt(sortedFindIndex(table, sortedArray, value),
              sortedFindWarns(table, sortedArray, value))

\* the test without the Deleted flag
vNodeAlreadyDeleted_noFlag(chore) ==
  chore.host # NullHost /\ vnode_isVNode(chore.host)

vNodeAlreadyDeleted(chore) ==
  chore.host # NullHost /\ vnode_isVNode(chore.host) /\ chore.host \in deleted


\* ------------------------------------------------------------------------
\* Executors (code outside the scheduler, seen through what it returns)
\* ------------------------------------------------------------------------
\* render output of executeComponent for a host and its props
Jsx(chore) == 100 * chore.host + chore.payload

\* the value an executor hands to the completion callback of executeChore
ExecutorValue(chore) ==
  IF chore.type = COMPONENT_SSR THEN Jsx(chore) ELSE Null

AllTasks ==
  {ParentTask, ParentVisibleTask, ChildTask, ChildVisibleTask, ChildResource}

\* executeChore calling target.resolve() for every QRL_RESOLVE chore
MaySuspend_alwaysResolve(chore) ==
  \/ /\ chore.type \in {TASK, VISIBLE}
     /\ \E task \in AllTasks : TaskId(task) = chore.payload /\ task.async
  \/ /\ chore.type = RESOURCE
     /\ ~isDomContainer
     /\ \E task \in AllTasks : TaskId(task) = chore.payload /\ task.async
  \/ chore.type \in {COMPONENT, COMPONENT_SSR} /\ chore.host = ChildHost
  \/ chore.type = RECOMPUTE_AND_SCHEDULE_EFFECTS /\ chore.target = ComputedB.id
  \/ chore.type = QRL_RESOLVE

\* executeChore returning the result of runResource on every container
MaySuspend_awaitResource(chore) ==
  \/ /\ chore.type \in {TASK, VISIBLE, RESOURCE}
     /\ \E task \in AllTasks : TaskId(task) = chore.payload /\ task.async
  \/ chore.type \in {COMPONENT, COMPONENT_SSR} /\ chore.host = ChildHost
  \/ chore.type = RECOMPUTE_AND_SCHEDULE_EFFECTS /\ chore.target = ComputedB.id
  \/ chore.type = QRL_RESOLVE /\ chore.target \notin resolvedQrls

\* executeChore gets a promise back from the executor: an async task or
\* resource (a resource is not awaited on the client), the render function
\* of the Child, the computation of ComputedB, the import of a QRL
MaySuspend(chore) ==
  \/ /\ chore.type \in {TASK, VISIBLE}
     /\ \E task \in AllTasks : TaskId(task) = chore.payload /\ task.async
  \/ /\ chore.type = RESOURCE
     /\ ~isDomContainer
     /\ \E task \in AllTasks : TaskId(task) = chore.payload /\ task.async
  \/ chore.type \in {COMPONENT, COMPONENT_SSR} /\ chore.host = ChildHost
  \/ chore.type = RECOMPUTE_AND_SCHEDULE_EFFECTS /\ chore.target = ComputedB.id
  \/ chore.type = QRL_RESOLVE /\ chore.target \notin resolvedQrls

\* executeChore gets a plain value back from the executor
MayReturn(chore) == ~MaySuspend(chore)

\* the executor of this chore fails
Fails(chore) == chore.type \in app.failing

\* the failure reaches the handler executeChore passes to safeCall:
\* (err) => container.handleError(err, host)
Handled(chore) == chore.type \in {COMPONENT, COMPONENT_SSR}

\* the executor of this chore type calls code that can call schedule
HasExecutor(chore) == chore.type # WAIT_FOR_ALL

\* ------------------------------------------------------------------------
\* schedule
\* ------------------------------------------------------------------------
\* born, by and atPc record when the chore was created: the number of chores
\* started so far, the chore that was running and the position of the drain;
\* warned records that inserting the chore logged the server warning
NewChore(type, idx, host, target, payload) ==
  [type |-> type, idx |-> idx, host |-> host, target |-> target,
   payload |-> payload, returnValue |-> Null, executed |-> FALSE,
   resolved |-> FALSE, promiseValue |-> Null, born |-> Len(log),
   by |-> currentChore, atPc |-> pc, warned |-> FALSE]

NoSchedule ==
  [n |-> 0, type |-> 0, chore |-> Null, merged |-> FALSE, payload |-> Null,
   running |-> Null, result |-> "none"]

\* drainUpTo without its test of currentChore
drainUpTo_noRunningTest(executed, current) ==
  IF executed THEN "value" ELSE "loop"

\* The three ways into drainUpTo: the chore already ran, a chore is running,
\* or the while loop is entered.
drainUpTo(executed, current) ==
  IF executed THEN "value"
  ELSE IF current # Null THEN "promise"
  ELSE "loop"

\* the test without journalFlushScheduled
needsJournalFlush_noFlag(runLater) == runLater

\* if (!journalFlushScheduled && runLater)
needsJournalFlush(runLater) == ~journalFlushScheduled /\ runLater

\* schedule(type, hostOrTask, targetOrQrl, payload); counted is FALSE for the
\* host's own call that serves a scheduleDrain request.
schedule(type, idx, host, target, payload, counted) ==
  LET runLater == type # WAIT_FOR_ALL /\ type # COMPONENT_SSR
      flush == needsJournalFlush(runLater)
  IN \E first \in {sortedInsert(chores, choreQueue,
                                 NewChore(type, idx, host, target, payload))} :
     \E second \in
          {IF flush
             THEN sortedInsert(first.table, first.queue,
                               NewChore(JOURNAL_FLUSH, NumIdx(0), NullHost,
                                        Null, Null))
             ELSE first} :
     \E way \in {IF runLater THEN "promise"
                  ELSE drainUpTo(second.table[first.chore].executed,
                                 currentChore)} :
       /\ chores' = second.table
       /\ choreQueue' = second.queue
       /\ journalFlushScheduled' = (journalFlushScheduled \/ flush)
       /\ drainRequests' =
            IF counted THEN drainRequests + (IF flush THEN 1 ELSE 0)
            ELSE drainRequests - 1
       /\ calls' = IF counted THEN calls + 1 ELSE calls
       /\ lastSchedule' =
            [n |-> calls', type |-> type, chore |-> first.chore,
             merged |-> first.merged, payload |-> payload,
             running |-> currentChore, result |-> way]
       /\ IF way = "loop"
            THEN /\ pc' = "loop"
                 /\ runUptoChore' = first.chore
                 /\ resumed' = FALSE
                 /\ UNCHANGED returns
            ELSE /\ UNCHANGED << pc, runUptoChore, resumed >>
                 /\ returns' =
                      IF way = "value"
                        THEN returns \cup
                               {[chore |-> first.chore, executed |-> TRUE,
                                 value |-> second.table[first.chore].returnValue,
                                 sync |-> TRUE]}
                        ELSE returns
       /\ UNCHANGED << app, qrlObject, signalTarget, serialized, compared, failed, woken, currentChore, suspended,
                       microtasks, deleted, resolvedQrls, journal, log,
                       flushes, dropped, skipped, assertFailed,
                  invocation, hookScope, EMITTED >>

\* application code can call schedule: from a task of its own, or from
\* inside the executor that executeChore is running.  An executor that
\* returns a promise makes its calls while executeChore waits for the
\* promise (a call made before that finds the scheduler in the same state).
CanCall ==
  /\ calls < MaxCalls
  /\ \/ pc = "idle"
     \/ /\ pc = "exec"
        /\ HasExecutor(chores[currentChore])
        /\ MayReturn(chores[currentChore])

\* every call carries a payload of its own
FreshPayload == calls + 1

ScheduleQrlResolve ==
  /\ CanCall
  /\ \E qrl \in app.qrls :
       schedule(QRL_RESOLVE, NumIdx(0), NullHost, qrl, Null, TRUE)

ScheduleRecompute ==
  /\ CanCall
  /\ \E signal \in app.signals :
       schedule(RECOMPUTE_AND_SCHEDULE_EFFECTS, NumIdx(0), signal.host,
                signal.id, Null, TRUE)

\* schedule(ChoreType.TASK | VISIBLE | RESOURCE, task)
ScheduleTask ==
  /\ CanCall
  /\ \E task \in app.tasks :
       schedule(task.type, NumIdx(task.index), task.el, Null, TaskId(task), TRUE)

ScheduleCleanupVisible ==
  /\ CanCall
  /\ \E task \in app.cleanups :
       schedule(CLEANUP_VISIBLE, NumIdx(task.index), task.el, Null,
                TaskId(task), TRUE)

ScheduleComponent ==
  /\ CanCall
  /\ isDomContainer
  /\ \E host \in app.components :
       schedule(COMPONENT, NumIdx(0), host, host, FreshPayload, TRUE)

ScheduleComponentSSR ==
  /\ CanCall
  /\ ~isDomContainer
  /\ \E host \in app.components :
       schedule(COMPONENT_SSR, NumIdx(0), host, host, FreshPayload, TRUE)

ScheduleNodeDiff ==
  /\ CanCall
  /\ \E host \in app.diffs :
       schedule(NODE_DIFF, NumIdx(0), host, host, FreshPayload, TRUE)

ScheduleNodeProp ==
  /\ CanCall
  /\ \E prop \in app.props :
       schedule(NODE_PROP, StrIdx(prop), ParentHost, prop, FreshPayload, TRUE)

ScheduleWaitForAll ==
  /\ CanCall
  /\ schedule(WAIT_FOR_ALL, NumIdx(0), NullHost, Null, Null, TRUE)

\* the host serves a scheduleDrain() request
HostDrain ==
  /\ pc = "idle"
  /\ drainRequests > 0
  /\ schedule(WAIT_FOR_ALL, NumIdx(0), NullHost, Null, Null, FALSE)


\* ------------------------------------------------------------------------
\* drainUpTo
\* ------------------------------------------------------------------------
\* return runUptoChore.$returnValue$ at the end of drainUpTo
DrainReturn ==
  /\ pc' = "idle"
  /\ runUptoChore' = Null
  /\ resumed' = FALSE
  /\ returns' = returns \cup
       {[chore |-> runUptoChore, executed |-> chores[runUptoChore].executed,
         value |-> chores[runUptoChore].returnValue, sync |-> ~resumed]}

\* while (choreQueue.length) fails
DrainFinish ==
  /\ pc = "loop"
  /\ choreQueue = << >>
  /\ DrainReturn
  /\ UNCHANGED << app, qrlObject, signalTarget, serialized, compared, failed, woken, chores, choreQueue, currentChore,
                  journalFlushScheduled, suspended, microtasks, deleted,
                  resolvedQrls, journal, drainRequests, calls, log, flushes,
                  dropped, skipped, assertFailed, lastSchedule,
                  invocation, hookScope, EMITTED >>

\* order > 0: break
DrainBreak ==
  /\ pc = "loop"
  /\ choreQueue # << >>
  /\ LET nextChore == Head(choreQueue)
     IN /\ choreComparator(chores[nextChore], chores[runUptoChore]) > 0
        /\ choreQueue' = Tail(choreQueue)
        /\ dropped' = dropped \cup {nextChore}
  /\ DrainReturn
  /\ UNCHANGED << app, qrlObject, signalTarget, serialized, compared, failed, woken, chores, currentChore, journalFlushScheduled,
                  suspended, microtasks, deleted, resolvedQrls, journal,
                  drainRequests, calls, log, flushes, skipped, assertFailed,
                  lastSchedule,
                  invocation, hookScope, EMITTED >>

\* the host vnode is deleted: continue
DrainSkip ==
  /\ pc = "loop"
  /\ choreQueue # << >>
  /\ LET nextChore == Head(choreQueue)
     IN /\ choreComparator(chores[nextChore], chores[runUptoChore]) <= 0
        /\ vNodeAlreadyDeleted(chores[nextChore])
        /\ chores[nextChore].type # CLEANUP_VISIBLE
        /\ choreQueue' = Tail(choreQueue)
        /\ skipped' = skipped \cup {nextChore}
  /\ UNCHANGED << app, qrlObject, signalTarget, serialized, compared, failed, woken, chores, currentChore, journalFlushScheduled, pc,
                  runUptoChore, resumed, suspended, microtasks, deleted,
                  resolvedQrls, journal, drainRequests, calls, log, flushes,
                  dropped, assertFailed, lastSchedule, returns,
                  invocation, hookScope, EMITTED >>

\* executeChore(nextChore) up to the call of the executor
DrainExecute ==
  /\ pc = "loop"
  /\ choreQueue # << >>
  /\ LET nextChore == Head(choreQueue)
     IN /\ choreComparator(chores[nextChore], chores[runUptoChore]) <= 0
        /\ ~(vNodeAlreadyDeleted(chores[nextChore])
               /\ chores[nextChore].type # CLEANUP_VISIBLE)
        /\ choreQueue' = Tail(choreQueue)
        /\ assertFailed' = (assertFailed \/ currentChore # Null)
        /\ currentChore' = nextChore
        /\ log' = Append(log, nextChore)
  /\ pc' = "exec"
  /\ UNCHANGED << app, qrlObject, signalTarget, serialized, compared, failed, woken, chores, journalFlushScheduled, runUptoChore,
                  resumed, suspended, microtasks, deleted, resolvedQrls,
                  journal, drainRequests, calls, flushes, dropped, skipped,
                  lastSchedule, returns,
                  invocation, hookScope, EMITTED >>

\* ------------------------------------------------------------------------
\* executeChore
\* ------------------------------------------------------------------------
\* executeChore without 'journalFlushScheduled = false'
ExecutorEffect_keepFlushScheduled(chore) ==
  /\ journalFlushScheduled' = journalFlushScheduled
  /\ flushes' =
       IF chore.type = JOURNAL_FLUSH THEN Append(flushes, journal) ELSE flushes
  /\ journal' =
       CASE chore.type = JOURNAL_FLUSH -> << >>
         [] chore.type = NODE_PROP ->
              Append(journal, [node |-> chore.host, prop |-> chore.idx.v,
                               value |-> chore.payload])
         [] chore.type \in {NODE_DIFF, COMPONENT} ->
              Append(journal, [node |-> chore.target, prop |-> 0,
                               value |-> chore.payload])
         [] OTHER -> journal
  /\ resolvedQrls' =
       IF chore.type = QRL_RESOLVE
         THEN resolvedQrls \cup {chore.target}
         ELSE resolvedQrls

\* What the switch of executeChore does to the scheduler and the container
\* by the time the executor of chore has produced its value.
ExecutorEffect(chore) ==
  /\ journalFlushScheduled' =
       IF chore.type = JOURNAL_FLUSH THEN FALSE ELSE journalFlushScheduled
  /\ flushes' =
       IF chore.type = JOURNAL_FLUSH THEN Append(flushes, journal) ELSE flushes
  /\ journal' =
       CASE chore.type = JOURNAL_FLUSH -> << >>
         [] chore.type = NODE_PROP ->
              Append(journal, [node |-> chore.host, prop |-> chore.idx.v,
                               value |-> chore.payload])
         [] chore.type \in {NODE_DIFF, COMPONENT} ->
              Append(journal, [node |-> chore.target, prop |-> 0,
                               value |-> chore.payload])
         [] OTHER -> journal
  /\ resolvedQrls' =
       IF chore.type = QRL_RESOLVE
         THEN resolvedQrls \cup {chore.target}
         ELSE resolvedQrls

\* the caller of schedule awaits the $promise$ of its chore
Awaited(chore) == chore.type \in app.awaits

\* $resolve$(value) of a pending promise queues the reactions of its awaiters
Awaiters(id) ==
  IF Awaited(chores[id]) /\ ~chores[id].resolved
    THEN << [kind |-> "resume", chore |-> id] >>
    ELSE << >>

\* returnValue.then(() => drainUpTo(runUptoChore, rootVNode))
Continuation(target) == << [kind |-> "drain", chore |-> target] >>

\* the callback without 'chore.$returnValue$ = value'
Completion_noReturnValue(id, value) ==
  chores' =
    IF currentChore # Null
      THEN [chores EXCEPT
              ![currentChore].executed = TRUE,
              ![currentChore].promiseValue =
                 IF chores[currentChore].resolved THEN @ ELSE value,
              ![currentChore].resolved = TRUE]
      ELSE chores

\* the callback executeChore passes to maybeThenPassError
Completion(id, value) ==
  chores' =
    IF currentChore # Null
      THEN LET done ==
                 [chores EXCEPT
                    ![currentChore].executed = TRUE,
                    ![currentChore].promiseValue =
                       IF chores[currentChore].resolved THEN @ ELSE value,
                    ![currentChore].resolved = TRUE]
           IN [done EXCEPT ![id].returnValue = value]
      ELSE [chores EXCEPT ![id].returnValue = value]

\* the executor returns a value: the completion callback runs at once and
\* drainUpTo goes round its loop
ExecuteReturn ==
  /\ pc = "exec"
  /\ MayReturn(chores[currentChore])
  /\ ~Fails(chores[currentChore])
  /\ ExecutorEffect(chores[currentChore])
  /\ Completion(currentChore, ExecutorValue(chores[currentChore]))
  /\ microtasks' = microtasks \o Awaiters(currentChore)
  /\ currentChore' = Null
  /\ pc' = "loop"
  /\ UNCHANGED << app, qrlObject, signalTarget, serialized, compared, failed, woken, choreQueue, runUptoChore, resumed, suspended,
                  deleted, drainRequests, calls, log, dropped,
                  skipped, assertFailed, lastSchedule, returns,
                  invocation, hookScope, EMITTED >>

\* the executor returns a promise: drainUpTo returns
\* returnValue.then(() => drainUpTo(runUptoChore, rootVNode))
ExecuteSuspend ==
  /\ pc = "exec"
  /\ MaySuspend(chores[currentChore])
  /\ suspended' = suspended \cup
       {[chore |-> currentChore, target |-> runUptoChore]}
  /\ pc' = "idle"
  /\ runUptoChore' = Null
  /\ resumed' = FALSE
  /\ UNCHANGED << app, qrlObject, signalTarget, serialized, compared, failed, woken, chores, choreQueue, currentChore,
                  journalFlushScheduled, microtasks, deleted, resolvedQrls,
                  journal, drainRequests, calls, log, flushes, dropped,
                  skipped, assertFailed, lastSchedule, returns,
                  invocation, hookScope, EMITTED >>

\* the promise of an executor resolves: the completion callback runs and the
\* continuation of the waiting drain becomes a microtask
Settle ==
  /\ pc = "idle"
  /\ \E s \in suspended :
       /\ ~Fails(chores[s.chore])
       /\ ExecutorEffect(chores[s.chore])
       /\ Completion(s.chore, ExecutorValue(chores[s.chore]))
       /\ suspended' = suspended \ {s}
       /\ microtasks' = microtasks \o Awaiters(s.chore) \o Continuation(s.target)
  /\ currentChore' = Null
  /\ UNCHANGED << app, qrlObject, signalTarget, serialized, compared, failed, woken, choreQueue, pc, runUptoChore, resumed, deleted,
                  drainRequests, calls, log, dropped, skipped, assertFailed,
                  lastSchedule, returns,
                  invocation, hookScope, EMITTED >>

\* The executor throws.  The handler of safeCall turns the failure of a
\* component into the value the completion callback gets; for the other
\* types the exception leaves executeChore, drainUpTo and schedule.
ExecuteThrow ==
  /\ pc = "exec"
  /\ MayReturn(chores[currentChore])
  /\ Fails(chores[currentChore])
  /\ failed' = failed \cup
       {[chore |-> currentChore, handled |-> Handled(chores[currentChore])]}
  /\ IF Handled(chores[currentChore])
       THEN /\ Completion(currentChore, Null)
            /\ microtasks' = microtasks \o Awaiters(currentChore)
            /\ currentChore' = Null
            /\ pc' = "loop"
            /\ UNCHANGED << runUptoChore, resumed >>
       ELSE /\ pc' = "idle"
            /\ runUptoChore' = Null
            /\ resumed' = FALSE
            /\ UNCHANGED << chores, currentChore, microtasks >>
  /\ UNCHANGED << app, qrlObject, signalTarget, serialized, compared, woken, choreQueue, journalFlushScheduled, suspended,
                  deleted, resolvedQrls, journal, drainRequests,
                  calls, log, flushes, dropped, skipped, assertFailed,
                  lastSchedule, returns,
                  invocation, hookScope, EMITTED >>

\* The promise of an executor rejects.  The handler of safeCall resolves
\* the promise of a component with its own value, so the completion
\* callback and the continuation of the drain run; for the other types
\* neither of them runs.
Reject ==
  /\ pc = "idle"
  /\ \E s \in suspended :
       /\ Fails(chores[s.chore])
       /\ suspended' = suspended \ {s}
       /\ failed' = failed \cup
            {[chore |-> s.chore, handled |-> Handled(chores[s.chore])]}
       /\ IF Handled(chores[s.chore])
            THEN /\ Completion(s.chore, Null)
                 /\ microtasks' =
                      microtasks \o Awaiters(s.chore) \o Continuation(s.target)
                 /\ currentChore' = Null
            ELSE UNCHANGED << chores, microtasks, currentChore >>
  /\ UNCHANGED << app, qrlObject, signalTarget, serialized, compared, woken, choreQueue, journalFlushScheduled, pc,
                  runUptoChore, resumed, deleted, resolvedQrls, journal, drainRequests,
                  calls, log, flushes, dropped, skipped, assertFailed,
                  lastSchedule, returns,
                  invocation, hookScope, EMITTED >>

\* () => drainUpTo(runUptoChore, rootVNode)
ContinueDrain ==
  /\ pc = "idle"
  /\ microtasks # << >>
  /\ Head(microtasks).kind = "drain"
  /\ microtasks' = Tail(microtasks)
  /\ LET target == Head(microtasks).chore
         way == drainUpTo(chores[target].executed, currentChore)
     IN IF way = "loop"
          THEN /\ pc' = "loop"
               /\ runUptoChore' = target
               /\ resumed' = TRUE
               /\ UNCHANGED returns
          ELSE /\ UNCHANGED << pc, runUptoChore, resumed >>
               /\ returns' =
                    IF way = "value"
                      THEN returns \cup
                             {[chore |-> target, executed |-> TRUE,
                               value |-> chores[target].returnValue,
                               sync |-> FALSE]}
                      ELSE returns
  /\ UNCHANGED << app, qrlObject, signalTarget, serialized, compared, failed, woken, chores, choreQueue, currentChore,
                  journalFlushScheduled, suspended, deleted, resolvedQrls,
                  journal, drainRequests, calls, log, flushes, dropped,
                  skipped, assertFailed, lastSchedule,
                  invocation, hookScope, EMITTED >>

\* the callers that await the $promise$ of a chore go on
ResumeAwaiters ==
  /\ pc = "idle"
  /\ microtasks # << >>
  /\ Head(microtasks).kind = "resume"
  /\ microtasks' = Tail(microtasks)
  /\ woken' = woken \cup {[chore |-> Head(microtasks).chore, at |-> Len(log)]}
  /\ UNCHANGED << app, qrlObject, signalTarget, serialized, compared, failed, chores, choreQueue, currentChore,
                  journalFlushScheduled, pc, runUptoChore, resumed, suspended,
                  deleted, resolvedQrls, journal, drainRequests, calls, log,
                  flushes, dropped, skipped, assertFailed, lastSchedule,
                  returns,
                  invocation, hookScope, EMITTED >>

\* the Child vnode is removed from the tree (by a diff of the Parent)
DeleteHost ==
  /\ CanCall
  /\ app.removes
  /\ ChildHost \notin deleted
  /\ deleted' = deleted \cup {ChildHost}
  /\ calls' = calls + 1
  /\ UNCHANGED << app, qrlObject, signalTarget, serialized, compared, failed, woken, chores, choreQueue, currentChore,
                  journalFlushScheduled, pc, runUptoChore, resumed, suspended,
                  microtasks, resolvedQrls, journal, drainRequests, log,
                  flushes, dropped, skipped, assertFailed, lastSchedule,
                  returns,
                  invocation, hookScope, EMITTED >>

\* ------------------------------------------------------------------------
\* Specification
\* ------------------------------------------------------------------------
\* no QRL is examined
NoQrl ==
  [capture |-> FALSE, isFn |-> FALSE, loader |-> "none", symbolRef |-> 0,
   resolved |-> 0, promises |-> << >>, returned |-> << >>, loads |-> 0]

\* no signal is examined
NoSignal == [examined |-> FALSE, pc |-> "none"]

\* no invocation, no hook scope and no emitted symbol is examined
NoInvocation == [examined |-> FALSE]
NoHookScope == [examined |-> FALSE]
NoEmitted == [examined |-> FALSE]

\* no serialized signal is examined
NoSerialized == [examined |-> FALSE]

NoCompare ==
  [a |-> Null, b |-> Null, c |-> Null, done |-> FALSE,
   ab |-> 0, ba |-> 0, bc |-> 0, ac |-> 0]

Init ==
  /\ app \in Apps
  /\ compared = NoCompare
  /\ chores = << >>
  /\ choreQueue = << >>
  /\ currentChore = Null
  /\ journalFlushScheduled = FALSE
  /\ pc = "idle"
  /\ runUptoChore = Null
  /\ resumed = FALSE
  /\ suspended = {}
  /\ microtasks = << >>
  /\ deleted = {}
  /\ resolvedQrls = {}
  /\ journal = << >>
  /\ drainRequests = 0
  /\ calls = 0
  /\ log = << >>
  /\ flushes = << >>
  /\ dropped = {}
  /\ skipped = {}
  /\ assertFailed = FALSE
  /\ lastSchedule = NoSchedule
  /\ returns = {}
  /\ failed = {}
  /\ woken = {}
  /\ qrlObject = NoQrl
  /\ signalTarget = NoSignal
  /\ serialized = NoSerialized
  /\ invocation = NoInvocation
  /\ hookScope = NoHookScope
  /\ EMITTED = NoEmitted

Next ==
  \/ ScheduleQrlResolve
  \/ ScheduleRecompute
  \/ ScheduleTask
  \/ ScheduleCleanupVisible
  \/ ScheduleComponent
  \/ ScheduleComponentSSR
  \/ ScheduleNodeDiff
  \/ ScheduleNodeProp
  \/ ScheduleWaitForAll
  \/ HostDrain
  \/ DrainFinish
  \/ DrainBreak
  \/ DrainSkip
  \/ DrainExecute
  \/ ExecuteReturn
  \/ ExecuteSuspend
  \/ Settle
  \/ ExecuteThrow
  \/ Reject
  \/ ContinueDrain
  \/ ResumeAwaiters
  \/ DeleteHost

Spec == Init /\ [][Next]_vars

\* ------------------------------------------------------------------------
\* The comparator on its own
\* ------------------------------------------------------------------------
\* the chores schedule can create, by type: $type$, $idx$, $host$, $target$
ComparableChores ==
  {[type |-> QRL_RESOLVE, idx |-> NumIdx(0), host |-> NullHost, target |-> q] :
     q \in {1, 2}}
  \cup {[type |-> RECOMPUTE_AND_SCHEDULE_EFFECTS, idx |-> NumIdx(0),
          host |-> h, target |-> t] : h \in {NullHost} \cup Hosts, t \in {1, 2}}
  \cup {[type |-> t, idx |-> NumIdx(i), host |-> h, target |-> Null] :
          t \in {RESOURCE, TASK, VISIBLE, CLEANUP_VISIBLE}, i \in {0, 1},
          h \in Hosts}
  \cup {[type |-> t, idx |-> NumIdx(0), host |-> h, target |-> h] :
          t \in {NODE_DIFF, COMPONENT, COMPONENT_SSR}, h \in Hosts}
  \cup {[type |-> NODE_PROP, idx |-> StrIdx(p), host |-> h, target |-> p] :
          p \in {1, 2}, h \in Hosts}
  \cup {[type |-> t, idx |-> NumIdx(0), host |-> NullHost, target |-> Null] :
          t \in {JOURNAL_FLUSH, WAIT_FOR_ALL}}

\* a client container renders with COMPONENT, a server with COMPONENT_SSR
Schedulable(chore) ==
  /\ chore.type = COMPONENT => isDomContainer
  /\ chore.type = COMPONENT_SSR => ~isDomContainer

InitCmp ==
  /\ app \in {NoApp, [NoApp EXCEPT !.container = "ssr"]}
  /\ \E a \in ComparableChores, b \in ComparableChores, c \in ComparableChores :
       /\ Schedulable(a) /\ Schedulable(b) /\ Schedulable(c)
       /\ compared = [NoCompare EXCEPT !.a = a, !.b = b, !.c = c]
  /\ chores = << >>
  /\ choreQueue = << >>
  /\ currentChore = Null
  /\ journalFlushScheduled = FALSE
  /\ pc = "idle"
  /\ runUptoChore = Null
  /\ resumed = FALSE
  /\ suspended = {}
  /\ microtasks = << >>
  /\ deleted = {}
  /\ resolvedQrls = {}
  /\ journal = << >>
  /\ drainRequests = 0
  /\ calls = 0
  /\ log = << >>
  /\ flushes = << >>
  /\ dropped = {}
  /\ skipped = {}
  /\ assertFailed = FALSE
  /\ lastSchedule = NoSchedule
  /\ returns = {}
  /\ failed = {}
  /\ woken = {}
  /\ qrlObject = NoQrl
  /\ signalTarget = NoSignal
  /\ serialized = NoSerialized
  /\ invocation = NoInvocation
  /\ hookScope = NoHookScope
  /\ EMITTED = NoEmitted

\* choreComparator is called for the pairs of the three chores
Compare ==
  /\ ~compared.done
  /\ compared' =
       [compared EXCEPT
          !.done = TRUE,
          !.ab = choreComparator(compared.a, compared.b),
          !.ba = choreComparator(compared.b, compared.a),
          !.bc = choreComparator(compared.b, compared.c),
          !.ac = choreComparator(compared.a, compared.c)]
  /\ UNCHANGED << app, qrlObject, signalTarget, serialized, chores, choreQueue, currentChore,
                  journalFlushScheduled, pc, runUptoChore, resumed, suspended,
                  microtasks, deleted, resolvedQrls, journal, drainRequests,
                  calls, log, flushes, dropped, skipped, assertFailed,
                  lastSchedule, returns, failed, woken,
                  invocation, hookScope, EMITTED >>

NextCmp == Compare

SpecCmp == InitCmp /\ [][NextCmp]_vars


\* ------------------------------------------------------------------------
\* createQRL: resolve on its own
\* ------------------------------------------------------------------------
\* the scheduler's variables, for the actions that do not touch it
schedulerVars ==
  << app, chores, choreQueue, currentChore, journalFlushScheduled, pc,
     runUptoChore, resumed, suspended, microtasks, deleted, resolvedQrls,
     journal, drainRequests, calls, log, flushes, dropped, skipped,
     assertFailed, lastSchedule, returns, failed, woken >>

\* a scheduler that was created and never called
NoScheduler ==
  /\ app = NoApp
  /\ chores = << >>
  /\ choreQueue = << >>
  /\ currentChore = Null
  /\ journalFlushScheduled = FALSE
  /\ pc = "idle"
  /\ runUptoChore = Null
  /\ resumed = FALSE
  /\ suspended = {}
  /\ microtasks = << >>
  /\ deleted = {}
  /\ resolvedQrls = {}
  /\ journal = << >>
  /\ drainRequests = 0
  /\ calls = 0
  /\ log = << >>
  /\ flushes = << >>
  /\ dropped = {}
  /\ skipped = {}
  /\ assertFailed = FALSE
  /\ lastSchedule = NoSchedule
  /\ returns = {}
  /\ failed = {}
  /\ woken = {}

\* number of resolve() calls on the QRL
MaxResolves == 3

\* What symbolRef and qrl.resolved can hold: null / undefined, the symbol as
\* the module exports it, the function wrapFn makes around it, or a promise
\* (PromiseRef(n) is the n-th promise made for this QRL).
NullRef == 0
RawSymbol == 1
WrappedSymbol == 2
PromiseRef(n) == 10 + n
IsPromiseRef(ref) == ref > 10
PromiseOf(ref) == ref - 10

\* wrapFn(fn): a function with captured scope is wrapped, anything else is
\* returned as it is
wrapFn(q, fn) == IF q.isFn /\ q.capture THEN WrappedSymbol ELSE fn

\* how the QRL gets its symbol: symbolFn, the platform's importSymbol
\* returning a promise or a value, or qFuncs for a sync QRL (chunk === '')
Loaders == {"symbolFn", "importSymbol", "importSymbolSync", "qFuncs"}

\* the state createQRL leaves: symbolRef was given as null, as a value
\* (unwrapped at once by maybeThen) or as a promise
CreatedQrl(capture, isFn, loader, given) ==
  LET q == [NoQrl EXCEPT !.capture = capture, !.isFn = isFn,
                         !.loader = loader]
  IN CASE given = "null" -> q
       [] given = "value" ->
            [q EXCEPT !.symbolRef = wrapFn(q, RawSymbol),
                      !.resolved = wrapFn(q, RawSymbol)]
       [] given = "promise" ->
            [q EXCEPT !.symbolRef = PromiseRef(1),
                      !.promises = << [state |-> "pending", value |-> NullRef,
                                       loaded |-> FALSE] >>]

InitQrl ==
  /\ NoScheduler
  /\ compared = NoCompare
  /\ signalTarget = NoSignal
  /\ serialized = NoSerialized
  /\ invocation = NoInvocation
  /\ hookScope = NoHookScope
  /\ EMITTED = NoEmitted
  /\ \E capture \in BOOLEAN, isFn \in BOOLEAN, loader \in Loaders,
        given \in {"null", "value", "promise"} :
       qrlObject = CreatedQrl(capture, isFn, loader, given)

CanResolve == Len(qrlObject.returned) < MaxResolves

\* resolve(): if (symbolRef !== null) return symbolRef
ResolveCached ==
  /\ CanResolve
  /\ qrlObject.symbolRef # NullRef
  /\ qrlObject' =
       [qrlObject EXCEPT !.returned = Append(@, qrlObject.symbolRef)]
  /\ UNCHANGED << schedulerVars, compared, signalTarget, serialized,
                  invocation, hookScope, EMITTED >>

\* resolve() of a sync QRL: qrl.resolved = symbolRef = qFuncs[Number(symbol)]
ResolveSyncQrl ==
  /\ CanResolve
  /\ qrlObject.symbolRef = NullRef
  /\ qrlObject.loader = "qFuncs"
  /\ qrlObject' =
       [qrlObject EXCEPT !.symbolRef = RawSymbol,
                         !.resolved = RawSymbol,
                         !.returned = Append(@, RawSymbol)]
  /\ UNCHANGED << schedulerVars, compared, signalTarget, serialized,
                  invocation, hookScope, EMITTED >>

\* resolve() when importSymbol returns the symbol itself: maybeThen calls
\* (ref) => (qrl.resolved = wrapFn((symbolRef = ref))) at once and its
\* result is assigned to symbolRef
ResolveImportSync ==
  /\ CanResolve
  /\ qrlObject.symbolRef = NullRef
  /\ qrlObject.loader = "importSymbolSync"
  /\ qrlObject' =
       [qrlObject EXCEPT !.symbolRef = wrapFn(qrlObject, RawSymbol),
                         !.resolved = wrapFn(qrlObject, RawSymbol),
                         !.loads = @ + 1,
                         !.returned = Append(@, wrapFn(qrlObject, RawSymbol))]
  /\ UNCHANGED << schedulerVars, compared, signalTarget, serialized,
                  invocation, hookScope, EMITTED >>

\* resolve() when the loader returns a promise: symbolRef is the promise of
\* the callback's result
ResolveImport ==
  /\ CanResolve
  /\ qrlObject.symbolRef = NullRef
  /\ qrlObject.loader \in {"symbolFn", "importSymbol"}
  /\ LET n == Len(qrlObject.promises) + 1
     IN qrlObject' =
          [qrlObject EXCEPT
             !.promises = Append(@, [state |-> "pending", value |-> NullRef,
                                     loaded |-> TRUE]),
             !.symbolRef = PromiseRef(n),
             !.loads = @ + 1,
             !.returned = Append(@, PromiseRef(n))]
  /\ UNCHANGED << schedulerVars, compared, signalTarget, serialized,
                  invocation, hookScope, EMITTED >>

\* the module arrives: (module) => (qrl.resolved = wrapFn((symbolRef =
\* module[symbol]))); the promise resolves with the value of the callback
ImportArrives ==
  /\ \E n \in 1..Len(qrlObject.promises) :
       /\ qrlObject.promises[n].state = "pending"
       /\ qrlObject' =
            [qrlObject EXCEPT
               !.promises[n].state = "fulfilled",
               !.promises[n].value = wrapFn(qrlObject, RawSymbol),
               !.symbolRef = RawSymbol,
               !.resolved = wrapFn(qrlObject, RawSymbol)]
  /\ UNCHANGED << schedulerVars, compared, signalTarget, serialized,
                  invocation, hookScope, EMITTED >>

\* the import fails and the rejected promise stays cached
ImportFails_cached ==
  /\ \E n \in 1..Len(qrlObject.promises) :
       /\ qrlObject.promises[n].state = "pending"
       /\ qrlObject' = [qrlObject EXCEPT !.promises[n].state = "rejected"]
  /\ UNCHANGED << schedulerVars, compared, signalTarget, serialized,
                  invocation, hookScope, EMITTED >>

\* the import fails: the rejection handler resolve() added to the promise of
\* a loader sets symbolRef = null (a promise given to createQRL has none)
ImportFails ==
  /\ \E n \in 1..Len(qrlObject.promises) :
       /\ qrlObject.promises[n].state = "pending"
       /\ qrlObject' =
            [qrlObject EXCEPT
               !.promises[n].state = "rejected",
               !.symbolRef =
                  IF qrlObject.promises[n].loaded THEN NullRef ELSE @]
  /\ UNCHANGED << schedulerVars, compared, signalTarget, serialized,
                  invocation, hookScope, EMITTED >>

NextQrl ==
  \/ ResolveCached
  \/ ResolveSyncQrl
  \/ ResolveImportSync
  \/ ResolveImport
  \/ ImportArrives
  \/ ImportFails

SpecQrl == InitQrl /\ [][NextQrl]_vars

\* ------------------------------------------------------------------------
\* executeChore: RECOMPUTE_AND_SCHEDULE_EFFECTS on its own
\* ------------------------------------------------------------------------
\* number of subscribers of the target and number of executions
MaxEffects == 2
MaxRuns == 2

\* The target of the chore: the length of $effects$, $forceRunEffects$,
\* whether it is invalid (a cell it reads was written), whether computing
\* it gives a value that differs from the cached one, and whether its
\* compute function first throws a promise (its code is not loaded).  pc is
\* the position of the executor; the rest records what the execution in
\* progress (or the last one) did.
NewSignal(effects, force, invalid, differs, throws) ==
  [examined |-> TRUE, effects |-> effects, forceRunEffects |-> force,
   invalid |-> invalid, differs |-> differs, throws |-> throws,
   pc |-> "ready", runs |-> 0, forceAtStart |-> FALSE, computed |-> FALSE,
   reported |-> FALSE, triggers |-> 0, retried |-> FALSE]

InitSignal ==
  /\ NoScheduler
  /\ compared = NoCompare
  /\ qrlObject = NoQrl
  /\ serialized = NoSerialized
  /\ invocation = NoInvocation
  /\ hookScope = NoHookScope
  /\ EMITTED = NoEmitted
  /\ \E effects \in 0..MaxEffects, force \in BOOLEAN, invalid \in BOOLEAN,
        differs \in BOOLEAN, throws \in BOOLEAN :
       signalTarget = NewSignal(effects, force, invalid, differs, throws)

\* the test without forceRunEffects
shouldTriggerEffects_noForce(changed, forceRunEffects) == changed

\* if (target.$computeIfNeeded$() || forceRunEffects)
shouldTriggerEffects(changed, forceRunEffects) == changed \/ forceRunEffects

\* target.$computeIfNeeded$(): computes an invalid target and reports
\* whether its value changed
computeIfNeeded(target) == target.invalid /\ target.differs

\* the executor leaving the force flag alone when it breaks early
RecomputeNoEffects_keepForce ==
  /\ signalTarget.pc = "ready"
  /\ signalTarget.runs < MaxRuns
  /\ signalTarget.effects = 0
  /\ signalTarget' =
       [signalTarget EXCEPT !.forceAtStart = signalTarget.forceRunEffects,
                            !.computed = FALSE,
                            !.reported = FALSE,
                            !.triggers = 0,
                            !.retried = FALSE,
                            !.runs = @ + 1,
                            !.pc = "done"]
  /\ UNCHANGED << schedulerVars, compared, qrlObject, serialized,
                  invocation, hookScope, EMITTED >>

\* const forceRunEffects = target.$forceRunEffects$;
\* target.$forceRunEffects$ = false;
\* if (!target.$effects$?.length) break;
RecomputeNoEffects ==
  /\ signalTarget.pc = "ready"
  /\ signalTarget.runs < MaxRuns
  /\ signalTarget.effects = 0
  /\ signalTarget' =
       [signalTarget EXCEPT !.forceAtStart = signalTarget.forceRunEffects,
                            !.forceRunEffects = FALSE,
                            !.computed = FALSE,
                            !.reported = FALSE,
                            !.triggers = 0,
                            !.retried = FALSE,
                            !.runs = @ + 1,
                            !.pc = "done"]
  /\ UNCHANGED << schedulerVars, compared, qrlObject, serialized,
                  invocation, hookScope, EMITTED >>

\* the function given to retryOnPromise, run to its end
Recomputed(target, force) ==
  [target EXCEPT !.computed = TRUE,
                 !.reported = computeIfNeeded(target),
                 !.invalid = FALSE,
                 !.triggers =
                    IF shouldTriggerEffects(computeIfNeeded(target), force)
                      THEN @ + 1 ELSE @,
                 !.pc = "done"]

\* the target has subscribers: retryOnPromise calls the function
RecomputeEffects ==
  /\ signalTarget.pc = "ready"
  /\ signalTarget.runs < MaxRuns
  /\ signalTarget.effects > 0
  /\ LET started ==
           [signalTarget EXCEPT
              !.forceAtStart = signalTarget.forceRunEffects,
              !.forceRunEffects = FALSE,
              !.computed = FALSE,
              !.reported = FALSE,
              !.triggers = 0,
              !.retried = FALSE,
              !.runs = @ + 1]
     IN signalTarget' =
          IF started.invalid /\ started.throws
            THEN [started EXCEPT !.pc = "retry", !.throws = FALSE,
                                 !.retried = TRUE]
            ELSE Recomputed(started, started.forceAtStart)
  /\ UNCHANGED << schedulerVars, compared, qrlObject, serialized,
                  invocation, hookScope, EMITTED >>

\* the promise the function threw has resolved: retryOnPromise calls the
\* function again
RecomputeRetry ==
  /\ signalTarget.pc = "retry"
  /\ signalTarget' = Recomputed(signalTarget, signalTarget.forceAtStart)
  /\ UNCHANGED << schedulerVars, compared, qrlObject, serialized,
                  invocation, hookScope, EMITTED >>

\* a cell the target reads is written, or force() is called on it, and the
\* chore is scheduled again
RecomputeAgain ==
  /\ signalTarget.pc = "done"
  /\ signalTarget.runs < MaxRuns
  /\ \E force \in BOOLEAN, invalid \in BOOLEAN, differs \in BOOLEAN :
       /\ force \/ invalid
       /\ signalTarget' =
            [signalTarget EXCEPT
               !.forceRunEffects = force,
               !.invalid = @ \/ invalid,
               !.differs = differs,
               !.pc = "ready"]
  /\ UNCHANGED << schedulerVars, compared, qrlObject, serialized,
                  invocation, hookScope, EMITTED >>

NextSignal ==
  \/ RecomputeNoEffects
  \/ RecomputeEffects
  \/ RecomputeRetry
  \/ RecomputeAgain

SpecSignal == InitSignal /\ [][NextSignal]_vars

\* ------------------------------------------------------------------------
\* useSerialized$: signals that hold a custom serializable object
\* (SerializedSignal and the serializer are not part of the sources at
\*  hand; this part follows the test "should do custom serialization" and
\*  the documentation of useSerialized$)
\* ------------------------------------------------------------------------
\* number of Counter components rendered and of clicks on each button
Counters == 2
MaxClicks == 4

\* `undefined`, and the signal that holds no object yet
Undefined == -1
NoObject == -2

\* the constructor function of the test and the one of the documentation
ConstructorFns == {"test", "doc"}

\* the constructor function without its default
constructorFn_noDefault(fn, data) == data

\* (count) => new CustomSerialized((count as number) || 2)
\* (prev) => new MyCustomSerializable(prev ?? 3)
\* the object is represented by its count
constructorFn(fn, data) ==
  IF fn = "test"
    THEN (IF data = Undefined \/ data = 0 THEN 2 ELSE data)
    ELSE (IF data = Undefined THEN 3 ELSE data)

\* [SerializerSymbol]() { return this.count; }
SerializerSymbol(object) == object

\* inc() { this.count++; }
inc(object) == object + 1

\* One useSerialized$ signal of a Counter: the object it holds, the
\* serialized data it was resumed with, the arguments its constructor
\* function was called with, the text of the button (spy.value), and what
\* the object held when the container was serialized.
NewCounter ==
  [rendered |-> FALSE, object |-> NoObject, data |-> Undefined,
   args |-> << >>, spy |-> Undefined, clicks |-> 0, paused |-> Undefined]

NewContainer(render, fn) ==
  [examined |-> TRUE, render |-> render, fn |-> fn,
   side |-> IF render = "ssr" THEN "server" ELSE "client",
   resumed |-> FALSE, signals |-> [i \in 1..Counters |-> NewCounter]]

InitSerialized ==
  /\ NoScheduler
  /\ compared = NoCompare
  /\ qrlObject = NoQrl
  /\ signalTarget = NoSignal
  /\ invocation = NoInvocation
  /\ hookScope = NoHookScope
  /\ EMITTED = NoEmitted
  /\ \E render \in {"ssr", "dom"}, fn \in ConstructorFns :
       serialized = NewContainer(render, fn)

\* reading .value: the object is created on the first read, from the
\* serialized data when there is some and from undefined otherwise
value(fn, signal) ==
  IF signal.object # NoObject THEN signal
  ELSE [signal EXCEPT !.object = constructorFn(fn, signal.data),
                      !.args = Append(@, signal.data)]

\* the component function runs: const spy = useSignal(myCount.value.count)
RenderCounter(i) ==
  /\ serialized.examined
  /\ ~serialized.resumed
  /\ ~serialized.signals[i].rendered
  /\ \E read \in {value(serialized.fn, serialized.signals[i])} :
       serialized' =
         [serialized EXCEPT
            !.signals[i] = [read EXCEPT !.rendered = TRUE,
                                        !.spy = read.object]]
  /\ UNCHANGED << schedulerVars, compared, qrlObject, signalTarget,
                  invocation, hookScope, EMITTED >>

\* ssrRenderToDom: the rendered container is serialized and resumed in the
\* browser; every object is replaced by what its [SerializerSymbol]
\* returns and no constructor function is called
PauseAndResume ==
  /\ serialized.examined
  /\ serialized.render = "ssr"
  /\ ~serialized.resumed
  /\ \A i \in 1..Counters : serialized.signals[i].rendered
  /\ serialized' =
       [serialized EXCEPT
          !.side = "client",
          !.resumed = TRUE,
          !.signals =
             [i \in 1..Counters |->
                [serialized.signals[i] EXCEPT
                   !.data = SerializerSymbol(serialized.signals[i].object),
                   !.paused = serialized.signals[i].object,
                   !.object = NoObject]]]
  /\ UNCHANGED << schedulerVars, compared, qrlObject, signalTarget,
                  invocation, hookScope, EMITTED >>

\* onClick$: myCount.value.inc(); spy.value = myCount.value.count
ClickCounter(i) ==
  /\ serialized.examined
  /\ serialized.side = "client"
  /\ serialized.signals[i].rendered
  /\ serialized.signals[i].clicks < MaxClicks
  /\ \E read \in {value(serialized.fn, serialized.signals[i])} :
       serialized' =
         [serialized EXCEPT
            !.signals[i] = [read EXCEPT !.object = inc(read.object),
                                        !.spy = inc(read.object),
                                        !.clicks = @ + 1]]
  /\ UNCHANGED << schedulerVars, compared, qrlObject, signalTarget,
                  invocation, hookScope, EMITTED >>

\* something else in the browser reads the signal of a resumed Counter
ReadCounter(i) ==
  /\ serialized.examined
  /\ serialized.side = "client"
  /\ serialized.signals[i].rendered
  /\ serialized.signals[i].object = NoObject
  /\ serialized' =
       [serialized EXCEPT
          !.signals[i] = value(serialized.fn, serialized.signals[i])]
  /\ UNCHANGED << schedulerVars, compared, qrlObject, signalTarget,
                  invocation, hookScope, EMITTED >>

NextSerialized ==
  \/ \E i \in 1..Counters : RenderCounter(i)
  \/ PauseAndResume
  \/ \E i \in 1..Counters : ClickCounter(i)
  \/ \E i \in 1..Counters : ReadCounter(i)

SpecSerialized == InitSerialized /\ [][NextSerialized]_vars

\* ------------------------------------------------------------------------
\* createQRL.bindFnToContext: calls of the function getFn returns
\* ------------------------------------------------------------------------
\* number of calls of the bound function
MaxInvocations == 2

\* QError.qrlIsNotFunction
qrlIsNotFunction == 10

\* values of context.$qrl$ and context.$event$ other than undefined: those
\* another invocation left there, and the invoked QRL and the `this` of the
\* call
OtherQrl == 1
ThisQrl == 2
OtherEvent == 1
ThisEvent == 2

\* the argument lists of the calls
ArgLists == {<< 1 >>, << 2, 3 >>}

\* what the symbol's function returns for its arguments
Applied(args) == 100 + args[1]

\* isFunction without its test
isFunction_any(symbol) == TRUE

isFunction(symbol) == symbol = "function"

\* The QRL and one bound function: whether qrl.resolved is set, what the
\* symbol is, whether its import succeeds and whether its function throws,
\* the beforeFn and currentCtx given to getFn, the `this` of getFn, the
\* context object given (when one is given), and the call in progress: its
\* arguments, its position, the context object it uses, the values it
\* saved, and what the calls so far did.
NewInvocation(resolved, symbol, loads, throws, beforeFn, given, context, this, args) ==
  [examined |-> TRUE, resolved |-> resolved, symbol |-> symbol,
   loads |-> loads, throws |-> throws, beforeFn |-> beforeFn,
   given |-> given, context |-> context, this |-> this, args |-> args,
   pc |-> "ready", calls |-> 0, wasResolved |-> resolved,
   atEntry |-> context, ctx |-> context,
   prevQrl |-> Undefined, prevEvent |-> Undefined,
   resolves |-> 0, beforeCalls |-> 0, invoked |-> << >>,
   result |-> [kind |-> "none", value |-> Undefined]]

InitInvoke ==
  /\ NoScheduler
  /\ compared = NoCompare
  /\ qrlObject = NoQrl
  /\ signalTarget = NoSignal
  /\ serialized = NoSerialized
  /\ hookScope = NoHookScope
  /\ EMITTED = NoEmitted
  /\ \E resolved \in BOOLEAN, symbol \in {"function", "object"},
        loads \in BOOLEAN, throws \in BOOLEAN,
        beforeFn \in {"none", "true", "false"},
        given \in {"none", "tuple", "context"},
        qrl \in {Undefined, OtherQrl}, event \in {Undefined, OtherEvent},
        this \in {Undefined, ThisEvent}, args \in ArgLists :
       /\ resolved => (loads /\ symbol = "function")
       /\ given # "context" => (qrl = Undefined /\ event = Undefined)
       /\ invocation =
            NewInvocation(resolved, symbol, loads, throws, beforeFn, given,
                          [qrl |-> qrl, event |-> event], this, args)

\* createOrReuseInvocationContext(currentCtx): a new context, a context
\* made from the tuple (it carries the tuple's event), or the given one
createOrReuseInvocationContext(inv) ==
  CASE inv.given = "none" -> [qrl |-> Undefined, event |-> Undefined]
    [] inv.given = "tuple" -> [qrl |-> Undefined, event |-> OtherEvent]
    [] inv.given = "context" -> inv.context

\* context.$qrl$ = qrl; context.$event$ ||= this
Entered(context, this) ==
  [qrl |-> ThisQrl,
   event |-> IF context.event = Undefined THEN this ELSE context.event]

\* a finally block that restores $qrl$ only
Restored_qrlOnly(context, prevQrl, prevEvent) ==
  [context EXCEPT !.qrl = prevQrl]

\* finally { context.$qrl$ = prevQrl; context.$event$ = prevEvent; }
Restored(context, prevQrl, prevEvent) ==
  [qrl |-> prevQrl, event |-> prevEvent]

\* the context object the caller gave, after the call changed the context
\* it uses
Given(inv, context) == IF inv.given = "context" THEN context ELSE inv.context

\* bound(...args) from `if (beforeFn && beforeFn() === false)` to the call
\* of invoke
BoundBody(inv) ==
  IF inv.beforeFn = "false"
    THEN [inv EXCEPT !.beforeCalls = @ + 1,
                     !.result = [kind |-> "undefined", value |-> Undefined],
                     !.pc = "done"]
    ELSE LET context == createOrReuseInvocationContext(inv)
         IN [inv EXCEPT
               !.beforeCalls = IF inv.beforeFn = "true" THEN @ + 1 ELSE @,
               !.atEntry = context,
               !.prevQrl = context.qrl,
               !.prevEvent = context.event,
               !.ctx = Entered(context, inv.this),
               !.context = Given(inv, Entered(context, inv.this)),
               !.pc = "invoking"]

\* bound(...args) while qrl.resolved is not set: return qrl.resolve().then(...)
CallUnresolved ==
  /\ invocation.examined
  /\ invocation.pc = "ready"
  /\ ~invocation.resolved
  /\ invocation' = [invocation EXCEPT !.resolves = @ + 1,
                                      !.calls = @ + 1,
                                      !.wasResolved = FALSE,
                                      !.pc = "resolving"]
  /\ UNCHANGED << schedulerVars, compared, qrlObject, signalTarget,
                  serialized, hookScope, EMITTED >>

\* bound(...args) while qrl.resolved is set
CallResolved ==
  /\ invocation.examined
  /\ invocation.pc = "ready"
  /\ invocation.resolved
  /\ invocation' =
       BoundBody([invocation EXCEPT !.calls = @ + 1, !.wasResolved = TRUE])
  /\ UNCHANGED << schedulerVars, compared, qrlObject, signalTarget,
                  serialized, hookScope, EMITTED >>

\* the reaction of qrl.resolve():
\* (fn) => { if (!isFunction(fn)) throw qError(QError.qrlIsNotFunction);
\*           return bound(...args); }
ResolveReaction ==
  /\ invocation.examined
  /\ invocation.pc = "resolving"
  /\ invocation.loads
  /\ invocation' =
       IF isFunction(invocation.symbol)
         THEN BoundBody([invocation EXCEPT !.resolved = TRUE])
         ELSE [invocation EXCEPT
                 !.resolved = TRUE,
                 !.result = [kind |-> "error", value |-> qrlIsNotFunction],
                 !.pc = "done"]
  /\ UNCHANGED << schedulerVars, compared, qrlObject, signalTarget,
                  serialized, hookScope, EMITTED >>

\* qrl.resolve() rejects: the promise bound returned rejects
ResolveRejects ==
  /\ invocation.examined
  /\ invocation.pc = "resolving"
  /\ ~invocation.loads
  /\ invocation' =
       [invocation EXCEPT !.result = [kind |-> "rejected", value |-> Undefined],
                          !.pc = "done"]
  /\ UNCHANGED << schedulerVars, compared, qrlObject, signalTarget,
                  serialized, hookScope, EMITTED >>

\* invoke.call(this, context, symbolRef, ...args) returns, then finally
InvokeReturns ==
  /\ invocation.examined
  /\ invocation.pc = "invoking"
  /\ isFunction(invocation.symbol)
  /\ ~invocation.throws
  /\ \E after \in {Restored(invocation.ctx, invocation.prevQrl,
                            invocation.prevEvent)} :
       invocation' =
         [invocation EXCEPT
            !.invoked = Append(@, invocation.args),
            !.ctx = after,
            !.context = Given(invocation, after),
            !.result = [kind |-> "value", value |-> Applied(invocation.args)],
            !.pc = "done"]
  /\ UNCHANGED << schedulerVars, compared, qrlObject, signalTarget,
                  serialized, hookScope, EMITTED >>

\* invoke throws (the function throws, or the symbol of a resolved QRL
\* cannot be called), then finally
InvokeThrows ==
  /\ invocation.examined
  /\ invocation.pc = "invoking"
  /\ invocation.throws \/ ~isFunction(invocation.symbol)
  /\ \E after \in {Restored(invocation.ctx, invocation.prevQrl,
                            invocation.prevEvent)} :
       invocation' =
         [invocation EXCEPT
            !.invoked = IF isFunction(invocation.symbol)
                          THEN Append(@, invocation.args) ELSE @,
            !.ctx = after,
            !.context = Given(invocation, after),
            !.result = [kind |-> "thrown", value |-> Undefined],
            !.pc = "done"]
  /\ UNCHANGED << schedulerVars, compared, qrlObject, signalTarget,
                  serialized, hookScope, EMITTED >>

\* the bound function is called again
CallAgain ==
  /\ invocation.examined
  /\ invocation.pc = "done"
  /\ invocation.calls < MaxInvocations
  /\ \E args \in ArgLists :
       invocation' =
         [invocation EXCEPT
            !.args = args,
            !.result = [kind |-> "none", value |-> Undefined],
            !.pc = "ready"]
  /\ UNCHANGED << schedulerVars, compared, qrlObject, signalTarget,
                  serialized, hookScope, EMITTED >>

NextInvoke ==
  \/ CallUnresolved
  \/ CallResolved
  \/ ResolveReaction
  \/ ResolveRejects
  \/ InvokeReturns
  \/ InvokeThrows
  \/ CallAgain

SpecInvoke == InitInvoke /\ [][NextInvoke]_vars

\* ------------------------------------------------------------------------
\* useSerializedQrl: the hook slots of one component
\* (useSequentialScope and throwIfQRLNotResolved are not part of the
\*  sources at hand: the scope is taken to give each hook call of a render
\*  the slot of its position, and throwIfQRLNotResolved to throw while the
\*  QRL is not resolved)
\* ------------------------------------------------------------------------
\* number of useSerialized$ calls in the component and number of renders
\* that are started from outside
Hooks == 3
MaxRenders == 3

\* nothing stored in a slot
NoVal == 0

\* The sequential scope of the component (what each slot holds), whether
\* the QRL of each hook is resolved, the signals constructed so far (by
\* slot), where the render in progress stands, and what every hook call
\* that returned gave back.
NewHookScope(qrlResolved) ==
  [examined |-> TRUE, slots |-> [i \in 1..Hooks |-> NoVal],
   qrlResolved |-> qrlResolved, created |-> [i \in 1..Hooks |-> 0],
   signals |-> 0, pc |-> "idle", index |-> 1, renders |-> 0,
   got |-> [i \in 1..Hooks |-> << >>], threw |-> [i \in 1..Hooks |-> FALSE]]

InitHook ==
  /\ NoScheduler
  /\ compared = NoCompare
  /\ qrlObject = NoQrl
  /\ signalTarget = NoSignal
  /\ serialized = NoSerialized
  /\ invocation = NoInvocation
  /\ EMITTED = NoEmitted
  /\ \E qrlResolved \in [1..Hooks -> BOOLEAN] :
       hookScope = NewHookScope(qrlResolved)

\* the hook throwing for its QRL before it stores the signal
useSerializedQrl_throwFirst(scope, i) ==
  IF scope.slots[i] # NoVal
    THEN [scope EXCEPT !.got[i] = Append(@, scope.slots[i]),
                       !.index = @ + 1]
    ELSE LET signal == scope.signals + 1
             made == [scope EXCEPT !.signals = signal,
                                   !.created[i] = @ + 1]
         IN IF ~scope.qrlResolved[i]
              THEN [made EXCEPT !.threw[i] = TRUE, !.pc = "waiting"]
              ELSE [made EXCEPT !.slots[i] = signal,
                                !.got[i] = Append(@, signal),
                                !.index = @ + 1]

\* useSerializedQrl(qrl) called for slot i:
\*   const { val, set } = useSequentialScope(); if (val) return val;
\*   const signal = new SerializedSignal(null, qrl); set(signal);
\*   throwIfQRLNotResolved(qrl); return signal;
useSerializedQrl(scope, i) ==
  IF scope.slots[i] # NoVal
    THEN [scope EXCEPT !.got[i] = Append(@, scope.slots[i]),
                       !.index = @ + 1]
    ELSE LET signal == scope.signals + 1
             stored == [scope EXCEPT !.signals = signal,
                                     !.created[i] = @ + 1,
                                     !.slots[i] = signal]
         IN IF ~scope.qrlResolved[i]
              THEN [stored EXCEPT !.threw[i] = TRUE, !.pc = "waiting"]
              ELSE [stored EXCEPT !.got[i] = Append(@, signal),
                                  !.index = @ + 1]

\* the component function is called
StartRender ==
  /\ hookScope.examined
  /\ hookScope.pc = "idle"
  /\ hookScope.renders < MaxRenders
  /\ hookScope' = [hookScope EXCEPT !.pc = "running", !.index = 1,
                                    !.renders = @ + 1]
  /\ UNCHANGED << schedulerVars, compared, qrlObject, signalTarget,
                  serialized, invocation, EMITTED >>

\* the component function reaches its next useSerialized$
HookCall ==
  /\ hookScope.examined
  /\ hookScope.pc = "running"
  /\ hookScope.index <= Hooks
  /\ hookScope' = useSerializedQrl(hookScope, hookScope.index)
  /\ UNCHANGED << schedulerVars, compared, qrlObject, signalTarget,
                  serialized, invocation, EMITTED >>

\* the QRL the render threw for has loaded: the component function is
\* called again
QrlLoaded ==
  /\ hookScope.examined
  /\ hookScope.pc = "waiting"
  /\ hookScope' = [hookScope EXCEPT !.qrlResolved[hookScope.index] = TRUE,
                                    !.pc = "running", !.index = 1]
  /\ UNCHANGED << schedulerVars, compared, qrlObject, signalTarget,
                  serialized, invocation, EMITTED >>

\* the component function returns
EndRender ==
  /\ hookScope.examined
  /\ hookScope.pc = "running"
  /\ hookScope.index > Hooks
  /\ hookScope' = [hookScope EXCEPT !.pc = "idle"]
  /\ UNCHANGED << schedulerVars, compared, qrlObject, signalTarget,
                  serialized, invocation, EMITTED >>

NextHook ==
  \/ StartRender
  \/ HookCall
  \/ QrlLoaded
  \/ EndRender

SpecHook == InitHook /\ [][NextHook]_vars

\* ------------------------------------------------------------------------
\* emitUsedSymbol
\* ------------------------------------------------------------------------
\* number of emitUsedSymbol calls
MaxEmits == 4

\* symbol names, the elements of the invocation contexts (0: undefined) and
\* the request times
Symbols == {"s_a", "s_b", "s_c"}
Elements == {0, 1}
ReqTimes == {0, 5}

\* The module-level set EMITTED, with the platform the module runs on, the
\* calls made so far and the 'qsymbol' events dispatched on the document.
NewEmitted(platform) ==
  [examined |-> TRUE, platform |-> platform, set |-> {}, seen |-> << >>,
   events |-> << >>]

InitEmit ==
  /\ NoScheduler
  /\ compared = NoCompare
  /\ qrlObject = NoQrl
  /\ signalTarget = NoSignal
  /\ serialized = NoSerialized
  /\ invocation = NoInvocation
  /\ hookScope = NoHookScope
  /\ \E platform \in {"browser", "server", "test"} :
       EMITTED = NewEmitted(platform)

\* emitEvent(eventName, detail): dispatches on the document unless qTest is
\* set or the platform is a server
emitEvent(state, eventName, detail, at) ==
  IF state.platform = "browser"
    THEN [state EXCEPT
            !.events = Append(@, [name |-> eventName, detail |-> detail,
                                  at |-> at])]
    ELSE state

\* emitUsedSymbol without EMITTED.add(symbol)
emitUsedSymbol_noAdd(state, symbol, element, reqTime) ==
  LET called == [state EXCEPT !.seen = Append(@, symbol)]
  IN IF symbol \notin state.set
       THEN emitEvent(called, "qsymbol",
                      [symbol |-> symbol, element |-> element,
                       reqTime |-> reqTime], Len(called.seen))
       ELSE called

\* if (!EMITTED.has(symbol)) { EMITTED.add(symbol); emitEvent('qsymbol', ...) }
emitUsedSymbol(state, symbol, element, reqTime) ==
  LET called == [state EXCEPT !.seen = Append(@, symbol)]
  IN IF symbol \notin state.set
       THEN emitEvent([called EXCEPT !.set = @ \cup {symbol}], "qsymbol",
                      [symbol |-> symbol, element |-> element,
                       reqTime |-> reqTime], Len(called.seen))
       ELSE called

\* a QRL's import has arrived: resolve() calls emitUsedSymbol
EmitUsedSymbol ==
  /\ EMITTED.examined
  /\ Len(EMITTED.seen) < MaxEmits
  /\ \E symbol \in Symbols, element \in Elements, reqTime \in ReqTimes :
       EMITTED' = emitUsedSymbol(EMITTED, symbol, element, reqTime)
  /\ UNCHANGED << schedulerVars, compared, qrlObject, signalTarget,
                  serialized, invocation, hookScope >>

NextEmit == EmitUsedSymbol

SpecEmit == InitEmit /\ [][NextEmit]_vars

\* ------------------------------------------------------------------------
\* Properties
\* ------------------------------------------------------------------------
InQueue == {choreQueue[i] : i \in 1..Len(choreQueue)}
Ran == {log[i] : i \in 1..Len(log)}
\* chores whose executor was entered and whose completion has not run
Executing == {id \in Ran : ~chores[id].executed}
\* position of a chore in the execution order
LogPos(id) == CHOOSE i \in 1..Len(log) : log[i] = id
BeforeFlushType(type) == MACRO(type) = 0
\* a chore was created before the chore at position i of the log started
BornBefore(id, i) == chores[id].born < i

\* C1: at most one chore is executing in every reachable state: the
\* assertion 'Chore already running.' of executeChore never fails and no two
\* chores are between the entry of their executor and their completion.
C1_OneChoreAtATime ==
  /\ ~assertFailed
  /\ Cardinality(Executing) <= 1
  /\ Cardinality(suspended) <= 1
  /\ pc = "exec" => currentChore # Null

\* a drain had suspended, its chore settled, and before its continuation ran
\* a second drain was started, which now holds a suspended chore of its own
C1_Witness ==
  /\ pc = "idle"
  /\ currentChore # Null
  /\ \E i \in 1..Len(microtasks) : microtasks[i].kind = "drain"
  /\ Len(log) >= 2

\* C2: a VISIBLE chore never starts while a BeforeFlush chore that was
\* scheduled before it started is waiting in the queue, and no BeforeFlush
\* chore runs after a VISIBLE chore that started when it was already
\* scheduled.
C2_BeforeFlushFirst ==
  /\ (currentChore # Null /\ chores[currentChore].type = VISIBLE)
       => \A id \in InQueue :
            BeforeFlushType(chores[id].type) => ~BornBefore(id, Len(log))
  /\ \A i \in 1..Len(log) : \A j \in 1..Len(log) :
       (/\ i < j
        /\ chores[log[i]].type = VISIBLE
        /\ BeforeFlushType(chores[log[j]].type))
         => ~BornBefore(log[j], i)

\* a VISIBLE chore was scheduled first, a BeforeFlush chore after it, and
\* the BeforeFlush chore ran first
C2_Witness ==
  \E i \in 1..Len(log) : \E j \in 1..Len(log) :
    /\ i < j
    /\ BeforeFlushType(chores[log[i]].type)
    /\ chores[log[j]].type = VISIBLE
    /\ log[j] < log[i]

\* C3: on the client no chore of the Child starts while a chore of the
\* Parent of the same macro phase, scheduled before it started, is waiting
\* in the queue.
C3_ParentFirst ==
  (/\ isDomContainer
   /\ currentChore # Null
   /\ chores[currentChore].host = ChildHost)
    => \A id \in InQueue :
         (/\ chores[id].host = ParentHost
          /\ MACRO(chores[id].type) = MACRO(chores[currentChore].type))
           => ~BornBefore(id, Len(log))


RunLater(type) == type # WAIT_FOR_ALL /\ type # COMPONENT_SSR

\* C4: the journal flush starts only when no BeforeFlush chore scheduled
\* before it is waiting, and a journal flush runs between the execution of a
\* non-terminal BeforeFlush chore and every later execution of a VISIBLE
\* chore or of the WAIT_FOR_ALL chore that ends the drain.
C4_FlushOncePerCycle ==
  /\ (currentChore # Null /\ chores[currentChore].type = JOURNAL_FLUSH)
       => \A id \in InQueue :
            BeforeFlushType(chores[id].type) => ~BornBefore(id, Len(log))
  /\ \A i \in 1..Len(log) : \A j \in 1..Len(log) :
       (/\ i < j
        /\ BeforeFlushType(chores[log[i]].type)
        /\ RunLater(chores[log[i]].type)
        /\ chores[log[j]].type \in {VISIBLE, WAIT_FOR_ALL})
         => \E k \in 1..Len(log) :
              i < k /\ k < j /\ chores[log[k]].type = JOURNAL_FLUSH

\* C5: the queue never holds two chores of a coalescible kind for the same
\* host and target.
C5_NoDuplicateInQueue ==
  \A i \in 1..Len(choreQueue) : \A j \in 1..Len(choreQueue) :
    LET a == chores[choreQueue[i]]
        b == chores[choreQueue[j]]
    IN (i < j /\ FifoType(a.type) /\ a.type = b.type /\ a.host = b.host)
         => a.target # b.target

\* C6: of the RECOMPUTE_AND_SCHEDULE_EFFECTS chores scheduled for one signal
\* before the first of them starts, only one is executed.
C6_OneRecomputePerDrain ==
  \A i \in 1..Len(log) : \A j \in 1..Len(log) :
    LET a == chores[log[i]]
        b == chores[log[j]]
    IN (/\ i < j
        /\ a.type = RECOMPUTE_AND_SCHEDULE_EFFECTS
        /\ b.type = RECOMPUTE_AND_SCHEDULE_EFFECTS
        /\ a.host = b.host
        /\ a.target = b.target)
         => ~BornBefore(log[j], i)

\* C7: after a schedule call of a coalescible kind was merged into a queued
\* chore, that chore carries the payload of the call as long as it waits.
C7_LatestPayload ==
  (/\ lastSchedule.merged
   /\ FifoType(lastSchedule.type)
   /\ lastSchedule.chore \in InQueue)
    => chores[lastSchedule.chore].payload = lastSchedule.payload

\* nothing is running, suspended or about to resume, and the host has
\* performed every drain it was asked for
Quiescent ==
  /\ pc = "idle"
  /\ currentChore = Null
  /\ suspended = {}
  /\ microtasks = << >>
  /\ drainRequests = 0

\* C8: when every drain the host was asked for has been performed and every
\* executor promise has settled, the future of every non-terminal chore
\* whose host is not deleted is resolved.
C8_FuturesResolve ==
  Quiescent
    => \A id \in 1..Len(chores) :
         (RunLater(chores[id].type) /\ chores[id].host \notin deleted)
           => chores[id].resolved

\* C9: a drain started by a terminal schedule call returns, at once or
\* through its continuation, only after the item has been executed, and it
\* returns the result of the item's executor; before that, no chore ordered
\* at or before the item was taken from the queue without being executed or
\* skipped for a deleted host.
C9_TerminalDrain ==
  \A r \in returns :
    chores[r.chore].host \notin deleted
      => /\ r.executed
         /\ r.value = ExecutorValue(chores[r.chore])
         /\ \A id \in dropped :
              chores[id].born <= LogPos(r.chore)
                => \/ choreComparator(chores[id], chores[r.chore]) > 0
                   \/ id \in Ran


C11_DeletedSkipped ==
  /\ [][(pc = "loop" /\ choreQueue # << >> /\ choreQueue' = Tail(choreQueue))
         => LET nextChore == Head(choreQueue)
                chore == chores[nextChore]
            IN IF isDomContainer /\ chore.host \in deleted
                 THEN IF chore.type = CLEANUP_VISIBLE
                        THEN log' = Append(log, nextChore)
                        ELSE log' = log /\ nextChore \in skipped'
                 ELSE nextChore \notin skipped']_vars
  /\ [](\A id \in skipped :
          chores[id].host \in deleted /\ chores[id].type # CLEANUP_VISIBLE)

\* a chore of the removed Child was skipped and the cleanup of its visible
\* task was executed
C11_Witness ==
  /\ skipped # {}
  /\ \E id \in Ran :
       chores[id].type = CLEANUP_VISIBLE /\ chores[id].host \in deleted

\* C12: a chore whose executor has failed was handed to the error
\* boundary, its future is resolved, and it is not left as currentChore, so
\* that later drains are not answered with 'a chore is running'.
C12_FailureRecovered ==
  \A f \in failed :
    /\ f.handled
    /\ chores[f.chore].resolved
    /\ currentChore # f.chore

\* chore y was scheduled while chore x was suspended on its promise
ScheduledDuringSuspensionOf(y, x) ==
  chores[y].by = x /\ chores[y].atPc = "idle"

\* C13: while a chore is suspended no chore starts; a drain only ever starts
\* the head of the queue; and a chore scheduled during the suspension of X
\* with an earlier ordering key than a chore Z that was waiting behind X
\* when X started runs before Z.
C13_ResumeTakesHead ==
  /\ [][(currentChore # Null /\ pc = "idle") => log' = log]_vars
  /\ [][(log' # log) => log' = Append(log, Head(choreQueue))]_vars
  /\ [](\A k \in 1..Len(log) : \A y \in 1..Len(chores) :
          LET z == log[k]
              x == chores[y].by
          IN (/\ x # Null
              /\ ScheduledDuringSuspensionOf(y, x)
              /\ chores[z].born < LogPos(x)
              /\ LogPos(x) < k
              /\ y \notin skipped
              /\ choreComparator(chores[y], chores[z]) < 0)
               => \E i \in 1..(k - 1) : log[i] = y)

\* a chore scheduled during the suspension of another ran before a chore
\* that had been waiting since before the suspension
C13_Witness ==
  \E k \in 1..Len(log) : \E i \in 1..(k - 1) :
    LET z == log[k]
        y == log[i]
        x == chores[y].by
    IN /\ x # Null
       /\ ScheduledDuringSuspensionOf(y, x)
       /\ chores[z].born < LogPos(x)
       /\ LogPos(x) < i
       /\ chores[z].type # WAIT_FOR_ALL
       /\ choreComparator(chores[y], chores[z]) < 0

\* C14: when the awaiters of the future of a chore X that had suspended are
\* resumed, every chore that was scheduled during the suspension of X with
\* an earlier ordering key than X has started, and the future of X holds
\* the result of X's executor.
C14_EarlierBeforeAwaiters ==
  \A w \in woken :
    /\ chores[w.chore].resolved
    /\ chores[w.chore].promiseValue = ExecutorValue(chores[w.chore])
    /\ \A y \in 1..Len(chores) :
         (/\ ScheduledDuringSuspensionOf(y, w.chore)
          /\ y \notin skipped
          /\ choreComparator(chores[y], chores[w.chore]) < 0)
           => \E i \in 1..w.at : log[i] = y

Sign(n) == IF n < 0 THEN -1 ELSE IF n > 0 THEN 1 ELSE 0

\* C15: choreComparator is a total order: compare(a,b) and compare(b,a)
\* have opposite signs, and compare(a,b) <= 0 with compare(b,c) <= 0 gives
\* compare(a,c) <= 0.
C15_TotalOrder ==
  compared.done
    => /\ Sign(compared.ab) = -Sign(compared.ba)
       /\ (compared.ab <= 0 /\ compared.bc <= 0) => compared.ac <= 0

\* the order of the kinds within a macro phase
KindOrder ==
  << QRL_RESOLVE, RESOURCE, TASK, NODE_DIFF, NODE_PROP, COMPONENT_SSR,
     COMPONENT, RECOMPUTE_AND_SCHEDULE_EFFECTS >>
KindRank(type) == CHOOSE i \in 1..Len(KindOrder) : KindOrder[i] = type

\* C16: two chores of the BeforeFlush phase whose hosts are equal, or one of
\* which has no host, are ordered by their kinds in the order QRL_RESOLVE,
\* RESOURCE, TASK, NODE_DIFF, NODE_PROP, COMPONENT_SSR, COMPONENT, RECOMPUTE,
\* and two chores of the same kind by their numeric index when it differs.
C16_KindOrder ==
  LET a == compared.a
      b == compared.b
  IN (/\ compared.done
      /\ MACRO(a.type) = 0 /\ MACRO(b.type) = 0
      /\ (a.host = b.host \/ a.host = NullHost \/ b.host = NullHost))
       => IF a.type # b.type
            THEN Sign(compared.ab) = Sign(KindRank(a.type) - KindRank(b.type))
            ELSE toNumber(a.idx) # toNumber(b.idx)
                   => Sign(compared.ab) = Sign(toNumber(a.idx) - toNumber(b.idx))

\* a RECOMPUTE chore without host was compared with a TASK of the Child, and
\* two tasks of one host with their indices
C16_Witness ==
  /\ compared.done
  /\ compared.a.type = RECOMPUTE_AND_SCHEDULE_EFFECTS
  /\ compared.a.host = NullHost
  /\ compared.b.type = TASK
  /\ compared.ab > 0
  /\ compared.c.type = TASK
  /\ compared.c.host = compared.b.host
  /\ compared.c.idx # compared.b.idx
  /\ compared.bc # 0

\* C17: a chore whose insertion on the server met a chore of another host
\* (and logged the warning) stands, right after the schedule call, behind
\* every queued chore of its macro phase; it is never taken from the queue
\* without being executed; and it has been executed when every drain the
\* host was asked for is done.
C17_OrderedLastNotLost ==
  \A id \in 1..Len(chores) :
    chores[id].warned
      => /\ id \notin dropped
         /\ Quiescent => chores[id].executed
         /\ (lastSchedule.chore = id /\ ~lastSchedule.merged)
              => \A i \in 1..Len(choreQueue) : \A j \in 1..Len(choreQueue) :
                   (choreQueue[i] = id /\ i < j)
                     => MACRO(chores[choreQueue[j]].type) # MACRO(chores[id].type)

\* C18: drainUpTo called with a chore that is marked executed starts no
\* chore, takes nothing from the queue and returns the chore's
\* $returnValue$; and a chore is marked executed only after its executor
\* was entered and has completed, with the value of the executor (the value
\* of the error handler if it failed) recorded as $returnValue$.
C18_ExecutedIsFinal ==
  /\ [][(/\ pc = "idle"
         /\ microtasks # << >>
         /\ Head(microtasks).kind = "drain"
         /\ chores[Head(microtasks).chore].executed
         /\ microtasks' = Tail(microtasks))
          => /\ log' = log
             /\ choreQueue' = choreQueue
             /\ pc' = "idle"
             /\ \E r \in returns' :
                  /\ r.chore = Head(microtasks).chore
                  /\ r.value = chores[r.chore].returnValue]_vars
  /\ [](\A id \in 1..Len(chores) :
          chores[id].executed
            => /\ id \in Ran
               /\ id \notin InQueue
               /\ currentChore # id
               /\ \A s \in suspended : s.chore # id
               /\ chores[id].returnValue =
                    IF \E f \in failed : f.chore = id
                      THEN Null
                      ELSE ExecutorValue(chores[id]))

\* the continuation of a drain was called with its target already executed
\* and returned the render output of the component
C18_Witness ==
  \E r \in returns :
    /\ ~r.sync
    /\ r.executed
    /\ r.value # Null
    /\ r.value = ExecutorValue(chores[r.chore])

KeyAfter(a, b) ==
  LET hostDiff ==
        IF a.host # NullHost /\ b.host # NullHost
          THEN vnode_documentPosition(a.host, b.host)
          ELSE 0
  IN \/ MACRO(a.type) > MACRO(b.type)
     \/ /\ MACRO(a.type) = MACRO(b.type)
        /\ \/ hostDiff > 0
           \/ /\ hostDiff = 0
              /\ \/ MICRO(a.type) > MICRO(b.type)
                 \/ /\ MICRO(a.type) = MICRO(b.type)
                    /\ toNumber(a.idx) > toNumber(b.idx)

\* C20: on the client the queue is sorted by ordering key in every
\* reachable state: no chore stands before a chore it comes after.
C20_QueueSorted ==
  isDomContainer
    => \A i \in 1..Len(choreQueue) : \A j \in 1..Len(choreQueue) :
         i < j => ~KeyAfter(chores[choreQueue[i]], chores[choreQueue[j]])

\* the JOURNAL_FLUSH chores among the entries of a queue
FlushesIn(table, queue) ==
  {i \in 1..Len(queue) : table[queue[i]].type = JOURNAL_FLUSH}

\* C21: a non-terminal schedule call made while journalFlushScheduled is
\* false adds one JOURNAL_FLUSH chore to the queue, sets the flag and calls
\* scheduleDrain once; a non-terminal call made while the flag is set calls
\* scheduleDrain not at all and adds no JOURNAL_FLUSH chore; and at most one
\* JOURNAL_FLUSH chore that has not executed exists.
C21_FlushRequestedOnce ==
  /\ [][(lastSchedule'.n # lastSchedule.n /\ RunLater(lastSchedule'.type))
         => IF ~journalFlushScheduled
              THEN /\ journalFlushScheduled'
                   /\ drainRequests' = drainRequests + 1
                   /\ Cardinality(FlushesIn(chores', choreQueue')) =
                        Cardinality(FlushesIn(chores, choreQueue)) + 1
              ELSE /\ journalFlushScheduled'
                   /\ drainRequests' = drainRequests
                   /\ Cardinality(FlushesIn(chores', choreQueue')) =
                        Cardinality(FlushesIn(chores, choreQueue))
                   /\ Len(chores') <= Len(chores) + 1]_vars
  /\ [](Cardinality({id \in 1..Len(chores) :
                       /\ chores[id].type = JOURNAL_FLUSH
                       /\ ~chores[id].executed}) <= 1)

\* three non-terminal calls were made before any chore ran: one
\* JOURNAL_FLUSH chore is queued and one drain was requested
C21_Witness ==
  /\ log = << >>
  /\ lastSchedule.n = 3
  /\ Len(choreQueue) = 4
  /\ Cardinality(FlushesIn(chores, choreQueue)) = 1
  /\ drainRequests = 1

\* what the caller of the i-th resolve() gets: the value returned, or the
\* value the returned promise was resolved with (NullRef while it is pending
\* or when it was rejected)
Yield(i) ==
  LET ref == qrlObject.returned[i]
  IN IF IsPromiseRef(ref)
       THEN qrlObject.promises[PromiseOf(ref)].value
       ELSE ref

\* C22: as long as no import has failed the loader is invoked at most once;
\* all resolve() calls that have yielded a symbol have yielded the same
\* one; and qrl.resolved, once set, stays set.
C22_ResolveIdempotent ==
  /\ []((\A n \in 1..Len(qrlObject.promises) :
            qrlObject.promises[n].state # "rejected")
          => qrlObject.loads <= 1)
  /\ [](\A i \in 1..Len(qrlObject.returned) :
        \A j \in 1..Len(qrlObject.returned) :
          (Yield(i) # NullRef /\ Yield(j) # NullRef) => Yield(i) = Yield(j))
  /\ [][qrlObject.resolved # NullRef => qrlObject'.resolved # NullRef]_vars

\* C23: when an execution of the chore has ended, the target's effects
\* were not triggered and nothing was computed if the target had no
\* subscribers; otherwise the target was computed and its effects were
\* triggered, once, exactly if the computation reported a change or the
\* force flag was set when the chore started; the force flag is cleared.
C23_RecomputeTriggers ==
  signalTarget.pc = "done"
    => /\ ~signalTarget.forceRunEffects
       /\ IF signalTarget.effects = 0
            THEN signalTarget.triggers = 0 /\ ~signalTarget.computed
            ELSE /\ signalTarget.computed
                 /\ signalTarget.triggers =
                      IF signalTarget.reported \/ signalTarget.forceAtStart
                        THEN 1 ELSE 0

\* a target with subscribers whose value did not change had its effects
\* triggered because it was forced, after its compute function was retried
C23_Witness ==
  /\ signalTarget.pc = "done"
  /\ signalTarget.effects > 0
  /\ signalTarget.forceAtStart
  /\ ~signalTarget.reported
  /\ signalTarget.triggers = 1
  /\ signalTarget.retried

\* C24: the journal changes only when a chore executes: a NODE_PROP,
\* NODE_DIFF or COMPONENT chore appends one entry and applies nothing, a
\* JOURNAL_FLUSH chore applies the journal and empties it; and when a drain
\* cycle has ended (nothing runs or waits and the queue is empty) no
\* journal entry is left without a flush.
C24_MutationsFlushed ==
  /\ [][(journal' # journal \/ flushes' # flushes)
         => /\ currentChore # Null
            /\ IF chores[currentChore].type = JOURNAL_FLUSH
                 THEN /\ journal' = << >>
                      /\ flushes' = Append(flushes, journal)
                 ELSE /\ chores[currentChore].type \in
                           {NODE_PROP, NODE_DIFF, COMPONENT}
                      /\ Len(journal') = Len(journal) + 1
                      /\ SubSeq(journal', 1, Len(journal)) = journal
                      /\ flushes' = flushes]_vars
  /\ []((Quiescent /\ choreQueue = << >>) => journal = << >>)

\* C25: a WAIT_FOR_ALL chore compares after every chore of another kind;
\* when a WAIT_FOR_ALL chore is taken from the queue to be executed the
\* queue is left empty, and every other chore created so far has been
\* executed or was skipped for a deleted host.
C25_WaitForAllLast ==
  /\ [](\A a \in 1..Len(chores) : \A b \in 1..Len(chores) :
          (chores[a].type = WAIT_FOR_ALL /\ chores[b].type # WAIT_FOR_ALL)
            => /\ choreComparator(chores[a], chores[b]) > 0
               /\ choreComparator(chores[b], chores[a]) < 0)
  /\ []((/\ pc = "exec"
          /\ currentChore # Null
          /\ chores[currentChore].type = WAIT_FOR_ALL)
          => /\ choreQueue = << >>
             /\ \A id \in 1..Len(chores) :
                  id # currentChore
                    => chores[id].executed \/ id \in skipped)

\* choreComparator(a, b) gets as far as comparing the indices: the macro
\* phases are equal, a is not the journal flush, the hosts do not decide and
\* the micro phases are equal
ReachesIdx(a, b) ==
  /\ MACRO(a.type) = MACRO(b.type)
  /\ a.type # JOURNAL_FLUSH
  /\ (a.host # b.host /\ a.host # NullHost /\ b.host # NullHost)
       => /\ vnode_isVNode(a.host) /\ vnode_isVNode(b.host)
          /\ vnode_documentPosition(a.host, b.host) = 0
  /\ MICRO(a.type) = MICRO(b.type)

\* the index comparison of a and b, with the result of the comparator
IdxComparisonSound(a, b, result) ==
  ReachesIdx(a, b)
    => \/ ~a.idx.str /\ ~b.idx.str
       \/ /\ a.idx.str /\ b.idx.str
          /\ a.type = NODE_PROP /\ b.type = NODE_PROP
          /\ toNumber(a.idx) = toNumber(b.idx)
          /\ a.target # b.target => result # 0

\* C26: whenever choreComparator reaches the index comparison, both
\* indices are numbers, or both chores are NODE_PROP chores with string
\* indices that compare as equal there and are told apart by their
\* property names.
C26_IdxKindsNeverMixed ==
  compared.done
    => /\ IdxComparisonSound(compared.a, compared.b, compared.ab)
       /\ IdxComparisonSound(compared.b, compared.a, compared.ba)
       /\ IdxComparisonSound(compared.b, compared.c, compared.bc)
       /\ IdxComparisonSound(compared.a, compared.c, compared.ac)

\* two property writes of one host were compared and told apart by name, and
\* one of them was compared with a diff of that host
C26_Witness ==
  /\ compared.done
  /\ compared.a.type = NODE_PROP
  /\ compared.b.type = NODE_PROP
  /\ compared.a.host = compared.b.host
  /\ compared.a.target # compared.b.target
  /\ compared.ab = 1
  /\ compared.c.type = NODE_DIFF
  /\ compared.c.host = compared.b.host
  /\ compared.bc # 0

\* the first value the constructor function of the container makes
FirstCount == IF serialized.fn = "test" THEN 2 ELSE 3

C28_NoChoreLost ==
  /\ dropped = {}
  /\ \A id \in DOMAIN chores :
       id \notin InQueue
         => id = currentChore \/ id \in Ran \/ id \in skipped

\* JOURNAL_FLUSH chores in the queue or executing
FlushesPending ==
  Cardinality(FlushesIn(chores, choreQueue))
    + (IF currentChore # Null /\ chores[currentChore].type = JOURNAL_FLUSH
         THEN 1 ELSE 0)

\* C29: journalFlushScheduled is true exactly when one JOURNAL_FLUSH chore
\* is in the queue or executing; the queue never holds two JOURNAL_FLUSH
\* chores; and every non-terminal chore that waits in the queue for the
\* phase before the flush has a JOURNAL_FLUSH chore waiting behind it.
C29_FlagMatchesQueue ==
  /\ journalFlushScheduled <=> FlushesPending = 1
  /\ Cardinality(FlushesIn(chores, choreQueue)) <= 1
  /\ \A i \in 1..Len(choreQueue) :
       (/\ RunLater(chores[choreQueue[i]].type)
        /\ BeforeFlushType(chores[choreQueue[i]].type))
         => \E j \in 1..Len(choreQueue) :
              i < j /\ chores[choreQueue[j]].type = JOURNAL_FLUSH

\* C30: a chore object enters the queue at most once (when it is created)
\* and is started at most once; its executed flag never goes back to false
\* and its return value is not replaced after it; its future is resolved at
\* most once, when the chore is marked executed, with the value stored as
\* its return value.
C30_OnceOnly ==
  /\ [][\A id \in 1..Len(chores) :
          /\ id \in InQueue' => id \in InQueue
          /\ chores[id].executed
               => /\ chores'[id].executed
                  /\ chores'[id].returnValue = chores[id].returnValue
          /\ chores[id].resolved
               => /\ chores'[id].resolved
                  /\ chores'[id].promiseValue = chores[id].promiseValue
          /\ (~chores[id].resolved /\ chores'[id].resolved)
               => /\ chores'[id].executed
                  /\ chores'[id].promiseValue = chores'[id].returnValue]_vars
  /\ [](/\ \A i \in 1..Len(choreQueue) : \A j \in 1..Len(choreQueue) :
             choreQueue[i] = choreQueue[j] => i = j
        /\ \A i \in 1..Len(log) : \A j \in 1..Len(log) :
             log[i] = log[j] => i = j
        /\ \A id \in 1..Len(chores) :
             chores[id].resolved => chores[id].promiseValue = chores[id].returnValue)

\* a component render has completed after another chore: its chore ran
\* once and its future holds the render output
C30_Witness ==
  \E id \in 1..Len(chores) :
    /\ chores[id].executed
    /\ chores[id].resolved
    /\ chores[id].returnValue # Null
    /\ chores[id].promiseValue = chores[id].returnValue
    /\ id \in Ran
    /\ Len(log) >= 2

\* the chore runs a resource whose function is asynchronous
AsyncResource(chore) ==
  /\ chore.type = RESOURCE
  /\ \E task \in AllTasks : TaskId(task) = chore.payload /\ task.async

\* C31: on a client container the executor step of a RESOURCE chore marks
\* the chore executed, resolves its future and leaves the drain in its
\* loop, whether or not the resource is asynchronous, and no RESOURCE chore
\* is ever waited for; on a server container the step of an asynchronous
\* resource leaves the chore running and unexecuted, and no other chore
\* starts while it is waited for.
C31_ResourceNotAwaited ==
  /\ [][(/\ pc = "exec"
         /\ chores[currentChore].type = RESOURCE
         /\ pc' # "exec")
          => IF isDomContainer
               THEN /\ pc' = "loop"
                    /\ chores'[currentChore].executed
                    /\ chores'[currentChore].resolved
                    /\ currentChore' = Null
                    /\ suspended' = suspended
               ELSE AsyncResource(chores[currentChore])
                      => /\ pc' = "idle"
                         /\ currentChore' = currentChore
                         /\ ~chores'[currentChore].executed
                         /\ log' = log]_vars
  /\ [](\A s \in suspended :
          chores[s.chore].type = RESOURCE
            => /\ ~isDomContainer
               /\ currentChore = s.chore
               /\ log[Len(log)] = s.chore)

\* on the client an asynchronous resource ran and the same drain went on
\* to start another chore
C31_Witness ==
  /\ isDomContainer
  /\ suspended = {}
  /\ \E i \in 1..Len(log) :
       /\ AsyncResource(chores[log[i]])
       /\ chores[log[i]].executed
       /\ i < Len(log)

\* the queued chores with the kind, host and index of a chore
SameSlot(table, queue, chore) ==
  {q \in {queue[i] : i \in 1..Len(queue)} :
     /\ table[q].type = chore.type
     /\ table[q].host = chore.host
     /\ table[q].idx = chore.idx}

\* C32: a schedule call of a kind other than QRL_RESOLVE, NODE_PROP and
\* RECOMPUTE_AND_SCHEDULE_EFFECTS, made while a chore of the same kind, host
\* and index is in the queue, is merged into that chore: no entry is added
\* for it, the call returns the queued chore, the queued chore keeps its
\* target, and its payload becomes the payload of the call only for
\* NODE_DIFF.
C32_Coalesced ==
  [][(/\ lastSchedule' # lastSchedule
      /\ ~FifoType(lastSchedule'.type))
       => LET id == lastSchedule'.chore
              same == SameSlot(chores, choreQueue, chores'[id])
          IN same # {}
               => /\ lastSchedule'.merged
                  /\ id \in same
                  /\ SameSlot(chores', choreQueue', chores'[id]) = same
                  /\ chores'[id].target = chores[id].target
                  /\ chores'[id].payload =
                       IF chores[id].type = NODE_DIFF
                         THEN lastSchedule'.payload
                         ELSE chores[id].payload]_vars

\* the promises a loader made for the QRL that were rejected
FailedImports ==
  {n \in 1..Len(qrlObject.promises) :
     qrlObject.promises[n].loaded /\ qrlObject.promises[n].state = "rejected"}

\* C33: when the promise of a loader is rejected the cached reference is
\* reset and qrl.resolved stays undefined; every resolve() that returned
\* that promise sees the rejection and no value; the next resolve() invokes
\* the loader again; and whenever the QRL is resolved, after failures or
\* not, qrl.resolved is the wrapped symbol and the loader's promise holds
\* it.
C33_FailureNotCached ==
  /\ [][FailedImports' # FailedImports
         => /\ qrlObject'.symbolRef = NullRef
            /\ qrlObject.resolved = NullRef
            /\ qrlObject'.resolved = NullRef]_vars
  /\ [][(/\ qrlObject.returned # qrlObject'.returned
         /\ qrlObject.symbolRef = NullRef
         /\ qrlObject.loader \in {"symbolFn", "importSymbol"})
          => /\ qrlObject'.loads = qrlObject.loads + 1
             /\ qrlObject'.symbolRef = PromiseRef(Len(qrlObject'.promises))
             /\ qrlObject'.promises[Len(qrlObject'.promises)].state = "pending"]_vars
  /\ [](\A i \in 1..Len(qrlObject.returned) :
          (/\ IsPromiseRef(qrlObject.returned[i])
           /\ PromiseOf(qrlObject.returned[i]) \in FailedImports)
            => Yield(i) = NullRef)
  /\ [](FailedImports # {} => qrlObject.loads >= Cardinality(FailedImports))
  /\ []((qrlObject.resolved # NullRef /\ qrlObject.loader # "qFuncs")
          => /\ qrlObject.resolved = wrapFn(qrlObject, RawSymbol)
             /\ \A n \in 1..Len(qrlObject.promises) :
                  qrlObject.promises[n].state = "fulfilled"
                    => qrlObject.promises[n].value = qrlObject.resolved)

\* the first import failed, resolve() was called again, the second import
\* arrived and the QRL is resolved
C33_Witness ==
  /\ qrlObject.loads = 2
  /\ FailedImports = {1}
  /\ qrlObject.promises[2].state = "fulfilled"
  /\ qrlObject.resolved = wrapFn(qrlObject, RawSymbol)
  /\ qrlObject.capture /\ qrlObject.isFn

\* C34: the executor step of a QRL_RESOLVE chore whose QRL is not resolved
\* calls resolve() and the drain waits for its promise, the chore still
\* unexecuted; when the QRL is resolved the step completes the chore at
\* once and the drain stays in its loop; and a chore that started after a
\* QRL_RESOLVE chore started finds that chore's QRL resolved.
C34_QrlResolvedFirst ==
  /\ [][(/\ pc = "exec"
         /\ chores[currentChore].type = QRL_RESOLVE
         /\ pc' # "exec")
          => IF chores[currentChore].target \notin resolvedQrls
               THEN /\ pc' = "idle"
                    /\ suspended' = suspended \cup
                         {[chore |-> currentChore, target |-> runUptoChore]}
                    /\ currentChore' = currentChore
                    /\ ~chores'[currentChore].executed
                    /\ log' = log
               ELSE /\ pc' = "loop"
                    /\ suspended' = suspended
                    /\ chores'[currentChore].executed
                    /\ currentChore' = Null
                    /\ resolvedQrls' = resolvedQrls]_vars
  /\ [](\A i \in 1..Len(log) : \A j \in 1..Len(log) :
          (i < j /\ chores[log[i]].type = QRL_RESOLVE)
            => chores[log[i]].target \in resolvedQrls)

\* a QRL_RESOLVE chore waited for its QRL, a second chore for the same QRL
\* completed without waiting, and another chore ran after them
C34_Witness ==
  \E i \in 1..Len(log) : \E j \in 1..Len(log) :
    /\ i < j
    /\ j < Len(log)
    /\ chores[log[i]].type = QRL_RESOLVE
    /\ chores[log[j]].type = QRL_RESOLVE
    /\ chores[log[i]].target = chores[log[j]].target
    /\ chores[log[j]].executed

\* C35: every execution of the chore takes the target's force flag and
\* leaves it false, with or without subscribers; the flag stays false
\* until force is requested again, so an execution that follows without a
\* new request starts unforced and triggers effects only for a change.
C35_ForceConsumed ==
  /\ [][signalTarget'.runs # signalTarget.runs
         => /\ signalTarget'.runs = signalTarget.runs + 1
            /\ signalTarget'.forceAtStart = signalTarget.forceRunEffects
            /\ ~signalTarget'.forceRunEffects]_vars
  /\ [][(signalTarget.pc = "retry" /\ signalTarget'.pc = "done")
         => ~signalTarget'.forceRunEffects]_vars
  /\ [](signalTarget.pc \in {"retry", "done"}
          => ~signalTarget.forceRunEffects)
  /\ []((/\ signalTarget.pc = "done"
         /\ signalTarget.runs >= 2
         /\ ~signalTarget.forceAtStart
         /\ ~signalTarget.reported)
          => signalTarget.triggers = 0)

\* a target without subscribers was executed twice, the second time after
\* an invalidation without a force request: that execution was not forced
C35_Witness ==
  /\ signalTarget.pc = "done"
  /\ signalTarget.effects = 0
  /\ signalTarget.runs = 2
  /\ ~signalTarget.forceAtStart
  /\ ~signalTarget.forceRunEffects

\* C36: a call of a resolved QRL through getFn with an existing context
\* has, while the function runs, the invoked QRL in the context's $qrl$
\* (and in $event$ the event that was there, or the `this` of the call if
\* there was none); when the function has returned or thrown, $qrl$ and
\* $event$ are what they were before the call.
C36_ContextRestored ==
  /\ []((invocation.examined /\ invocation.given = "context")
          => /\ invocation.pc = "invoking"
                  => /\ invocation.context.qrl = ThisQrl
                     /\ invocation.context.event =
                          IF invocation.atEntry.event = Undefined
                            THEN invocation.this
                            ELSE invocation.atEntry.event
             /\ invocation.pc # "invoking"
                  => invocation.context = invocation.atEntry)
  /\ [][(invocation.examined /\ invocation.given = "context")
          => invocation'.atEntry = invocation.atEntry]_vars
  /\ [][(/\ invocation.examined
         /\ invocation.given = "context"
         /\ invocation.pc = "invoking"
         /\ invocation'.pc = "done")
          => /\ invocation'.result.kind \in {"value", "thrown"}
             /\ invocation'.context.qrl = invocation.prevQrl
             /\ invocation'.context.event = invocation.prevEvent]_vars

\* a resolved QRL was called with a context that held another QRL and no
\* event; the function threw and the context holds the other QRL and no
\* event again
C36_Witness ==
  /\ invocation.examined
  /\ invocation.given = "context"
  /\ invocation.wasResolved
  /\ invocation.this = ThisEvent
  /\ invocation.pc = "done"
  /\ invocation.result.kind = "thrown"
  /\ invocation.invoked # << >>
  /\ invocation.context = [qrl |-> OtherQrl, event |-> Undefined]

\* C37: a call made while the QRL is not resolved calls resolve() and
\* invokes nothing yet; when the QRL has loaded, a symbol that is no
\* function ends the call with the qrlIsNotFunction error and nothing
\* invoked, a beforeFn that returns false ends it with undefined and
\* nothing invoked, and otherwise the function is invoked once with the
\* arguments of the call.
C37_ResolveThenInvoke ==
  /\ [][(/\ invocation.examined
         /\ invocation.pc = "ready"
         /\ ~invocation.resolved
         /\ invocation'.pc # "ready")
          => /\ invocation'.pc = "resolving"
             /\ invocation'.resolves = invocation.resolves + 1
             /\ invocation'.invoked = invocation.invoked
             /\ invocation'.beforeCalls = invocation.beforeCalls]_vars
  /\ [][(/\ invocation.examined
         /\ invocation.pc = "resolving"
         /\ invocation'.pc # "resolving"
         /\ invocation.loads)
          => /\ invocation'.invoked = invocation.invoked
             /\ invocation'.args = invocation.args
             /\ IF invocation.symbol # "function"
                  THEN /\ invocation'.pc = "done"
                       /\ invocation'.result =
                            [kind |-> "error", value |-> qrlIsNotFunction]
                  ELSE IF invocation.beforeFn = "false"
                    THEN /\ invocation'.pc = "done"
                         /\ invocation'.result =
                              [kind |-> "undefined", value |-> Undefined]
                    ELSE invocation'.pc = "invoking"]_vars
  /\ [][(invocation.examined /\ invocation'.invoked # invocation.invoked)
          => /\ invocation.resolved
             /\ invocation.beforeFn # "false"
             /\ invocation'.invoked =
                  Append(invocation.invoked, invocation.args)]_vars
  /\ []((/\ invocation.examined
         /\ invocation.pc = "done"
         /\ invocation.result.kind = "value")
          => /\ invocation.invoked # << >>
             /\ invocation.invoked[Len(invocation.invoked)] = invocation.args
             /\ invocation.result.value = Applied(invocation.args))

\* an unresolved QRL was called with two arguments and a beforeFn that
\* allows the call: it was resolved once, then invoked once with them
C37_Witness ==
  /\ invocation.examined
  /\ ~invocation.wasResolved
  /\ invocation.beforeFn = "true"
  /\ invocation.resolves = 1
  /\ invocation.beforeCalls = 1
  /\ invocation.invoked = << << 2, 3 >> >>
  /\ invocation.result = [kind |-> "value", value |-> 102]

\* C38: useSerializedQrl constructs at most one signal for a hook slot; the
\* signal is in the slot when the call throws for its unresolved QRL; a
\* slot that holds a signal keeps it; and every call that returns, in the
\* re-execution after the QRL has loaded and in later renders, returns the
\* signal of its slot.
C38_OneSignalPerSlot ==
  /\ [](hookScope.examined
          => \A i \in 1..Hooks :
               /\ hookScope.created[i] <= 1
               /\ hookScope.created[i] = 1 <=> hookScope.slots[i] # NoVal
               /\ \A k \in 1..Len(hookScope.got[i]) :
                    hookScope.got[i][k] = hookScope.slots[i]
               /\ (hookScope.pc = "waiting" /\ hookScope.index = i)
                    => hookScope.slots[i] # NoVal)
  /\ [][hookScope.examined
         => \A i \in 1..Hooks :
              hookScope.slots[i] # NoVal
                => hookScope'.slots[i] = hookScope.slots[i]]_vars

\* the second hook threw for its QRL, the component was executed again
\* and rendered once more: each call for that slot returned the one signal
C38_Witness ==
  /\ hookScope.examined
  /\ hookScope.threw[2]
  /\ hookScope.pc = "idle"
  /\ hookScope.renders = 2
  /\ hookScope.created[2] = 1
  /\ Len(hookScope.got[2]) = 2
  /\ Len(hookScope.got[1]) = 3
  /\ hookScope.got[2][1] = hookScope.got[2][2]

\* the position of the first call for a symbol
FirstCall(symbol) ==
  CHOOSE k \in 1..Len(EMITTED.seen) :
    /\ EMITTED.seen[k] = symbol
    /\ \A j \in 1..(k - 1) : EMITTED.seen[j] # symbol

\* C39: no two 'qsymbol' events carry the same symbol; each event was
\* dispatched by the first call for its symbol; in the browser every
\* symbol that was passed has its event; the set EMITTED holds exactly the
\* symbols passed so far and never loses one.
C39_EmittedOnce ==
  /\ [](EMITTED.examined
          => /\ \A i \in 1..Len(EMITTED.events) :
                \A j \in 1..Len(EMITTED.events) :
                  EMITTED.events[i].detail.symbol =
                    EMITTED.events[j].detail.symbol => i = j
             /\ \A i \in 1..Len(EMITTED.events) :
                  /\ EMITTED.events[i].name = "qsymbol"
                  /\ EMITTED.events[i].at =
                       FirstCall(EMITTED.events[i].detail.symbol)
             /\ EMITTED.set =
                  {EMITTED.seen[k] : k \in 1..Len(EMITTED.seen)}
             /\ EMITTED.platform = "browser"
                  => {EMITTED.events[i].detail.symbol :
                        i \in 1..Len(EMITTED.events)} = EMITTED.set)
  /\ [][EMITTED.examined => EMITTED.set \subseteq EMITTED'.set]_vars

\* in the browser a symbol was passed twice and another once: two events
C39_Witness ==
  /\ EMITTED.examined
  /\ EMITTED.platform = "browser"
  /\ Len(EMITTED.seen) = 3
  /\ EMITTED.seen[1] = EMITTED.seen[2]
  /\ EMITTED.seen[3] # EMITTED.seen[1]
  /\ Len(EMITTED.events) = 2

====
